---- MODULE Spec2Model ----
(***************************************************************************)
(* A model of the extraction-and-validation pipeline of the Souli          *)
(* ingestion service: app/services/extractor.py (response parser, retried  *)
(* model call, per-item validation), app/services/text_utils.py            *)
(* (truncation) and app/models/metadata.py (the record schema).            *)
(*                                                                         *)
(* Texts are sequences of characters.  A character is a one-element        *)
(* string; to keep texts short a whole word without whitespace, quotes,    *)
(* brackets or backticks (main_question, json, w) is written as one     *)
(* character.                                                              *)
(***************************************************************************)
EXTENDS Integers, Sequences, FiniteSets, TLC

(***************************************************************************)
(* Characters and Python's str helpers                                     *)
(***************************************************************************)
QUOTE == "\""

\* The backtick character (a TLA+ string cannot hold it)
BACKTICK == "BACKTICK"

\* The escape sequence \u0060, which a JSON string may hold for a backtick
ESCAPED_BACKTICK == "\\u0060"

\* str.isspace on one character
IsSpace(c) == c \in {" ", "\n"}

\* The characters json.dumps writes unescaped inside a string and the
\* strict decoder accepts there: no quote, no backslash, no control character.
IsControl(c) == c = "\n"

IsDigit(c) == c \in {"1", "2"}

RECURSIVE lstrip(_)
lstrip(s) ==
    IF s # <<>> /\ IsSpace(Head(s)) THEN lstrip(Tail(s)) ELSE s

RECURSIVE rstrip(_)
rstrip(s) ==
    IF s # <<>> /\ IsSpace(s[Len(s)]) THEN rstrip(SubSeq(s, 1, Len(s) - 1)) ELSE s

\* str.strip()
strip(s) == rstrip(lstrip(s))

(***************************************************************************)
(* JSON values, as Python holds them after json.loads: str, int, None,     *)
(* list, dict.  A dict is the sequence of its <<key, value>> pairs in      *)
(* insertion order, keys unique.                                           *)
(***************************************************************************)
JStr(s)  == [k |-> "str", s |-> s]
JNum(n)  == [k |-> "num", n |-> n]
JNull    == [k |-> "null"]
JArr(e)  == [k |-> "arr", e |-> e]
JObj(m)  == [k |-> "obj", m |-> m]

IsStr(v)  == v.k = "str"
IsList(v) == v.k = "arr"
IsDict(v) == v.k = "obj"

\* key in d
HasKey(d, key) == \E i \in 1..Len(d.m) : d.m[i][1] = key

\* d[key], for a key that is present
GetItem(d, key) == d.m[CHOOSE i \in 1..Len(d.m) : d.m[i][1] = key][2]

\* a variant: d.get(key), which gives None for a missing key
DictGet_NoDefault(d, key, default) == IF HasKey(d, key) THEN GetItem(d, key) ELSE JNull

\* d.get(key, default)
DictGet(d, key, default) == IF HasKey(d, key) THEN GetItem(d, key) ELSE default

\* dict(pairs): a repeated key keeps its first position and its last value
RECURSIVE DictFromPairs(_, _)
DictFromPairs(pairs, acc) ==
    IF pairs = <<>> THEN acc
    ELSE LET p == Head(pairs)
             hit == {i \in 1..Len(acc) : acc[i][1] = p[1]}
         IN  DictFromPairs(Tail(pairs),
                 IF hit = {} THEN Append(acc, p)
                 ELSE [i \in 1..Len(acc) |-> IF i \in hit THEN p ELSE acc[i]])

(***************************************************************************)
(* json.dumps with the default separators ", " and ": "                    *)
(***************************************************************************)
RECURSIVE json_dumps(_)
RECURSIVE DumpElems(_, _)
RECURSIVE DumpPairs(_, _)

DumpElems(e, i) ==
    IF i > Len(e) THEN <<>>
    ELSE (IF i > 1 THEN <<",", " ">> ELSE <<>>) \o json_dumps(e[i]) \o DumpElems(e, i + 1)

DumpPairs(m, i) ==
    IF i > Len(m) THEN <<>>
    ELSE (IF i > 1 THEN <<",", " ">> ELSE <<>>)
         \o <<QUOTE>> \o m[i][1] \o <<QUOTE, ":", " ">> \o json_dumps(m[i][2])
         \o DumpPairs(m, i + 1)

json_dumps(v) ==
    CASE v.k = "str"  -> <<QUOTE>> \o v.s \o <<QUOTE>>
      [] v.k = "num"  -> v.n
      [] v.k = "null" -> <<"null">>
      [] v.k = "arr"  -> <<"[">> \o DumpElems(v.e, 1) \o <<"]">>
      [] v.k = "obj"  -> <<"{">> \o DumpPairs(v.m, 1) \o <<"}">>

(***************************************************************************)
(* json.loads: the strict recursive-descent decoder.  A parse step returns *)
(* [ok, v, i]: whether it succeeded, the value, and the index after it.    *)
(***************************************************************************)
ParseFail == [ok |-> FALSE, v |-> JNull, i |-> 0]
ParseOk(v, i) == [ok |-> TRUE, v |-> v, i |-> i]

RECURSIVE SkipWs(_, _)
SkipWs(t, i) ==
    IF i <= Len(t) /\ IsSpace(t[i]) THEN SkipWs(t, i + 1) ELSE i

RECURSIVE SkipDigits(_, _)
SkipDigits(t, i) ==
    IF i <= Len(t) /\ IsDigit(t[i]) THEN SkipDigits(t, i + 1) ELSE i

\* the characters of a string literal, escape sequences decoded
Unescape(s) ==
    [j \in 1..Len(s) |-> IF s[j] = ESCAPED_BACKTICK THEN BACKTICK ELSE s[j]]

\* scanstring: i is the index after the opening quote
RECURSIVE ScanString(_, _, _)
ScanString(t, i, from) ==
    IF i > Len(t) \/ IsControl(t[i]) THEN ParseFail
    ELSE IF t[i] = QUOTE THEN ParseOk(Unescape(SubSeq(t, from, i - 1)), i + 1)
    ELSE ScanString(t, i + 1, from)

RECURSIVE ParseValue(_, _)
RECURSIVE ParseElems(_, _, _)
RECURSIVE ParseMembers(_, _, _)

\* JSONArray, after the first element's leading whitespace
ParseElems(t, i, acc) ==
    LET r == ParseValue(t, i) IN
    IF ~r.ok THEN ParseFail
    ELSE LET j == SkipWs(t, r.i) IN
         IF j > Len(t) THEN ParseFail
         ELSE IF t[j] = "]" THEN ParseOk(JArr(Append(acc, r.v)), j + 1)
         ELSE IF t[j] = "," THEN ParseElems(t, SkipWs(t, j + 1), Append(acc, r.v))
         ELSE ParseFail

\* JSONObject, at the opening quote of a key
ParseMembers(t, i, acc) ==
    IF i > Len(t) \/ t[i] # QUOTE THEN ParseFail
    ELSE LET key == ScanString(t, i + 1, i + 1) IN
         IF ~key.ok THEN ParseFail
         ELSE LET c == SkipWs(t, key.i) IN
              IF c > Len(t) \/ t[c] # ":" THEN ParseFail
              ELSE LET r == ParseValue(t, SkipWs(t, c + 1)) IN
                   IF ~r.ok THEN ParseFail
                   ELSE LET j == SkipWs(t, r.i)
                            pairs == Append(acc, <<key.v, r.v>>)
                        IN  IF j > Len(t) THEN ParseFail
                            ELSE IF t[j] = "}"
                                 THEN ParseOk(JObj(DictFromPairs(pairs, <<>>)), j + 1)
                            ELSE IF t[j] = ","
                                 THEN ParseMembers(t, SkipWs(t, j + 1), pairs)
                            ELSE ParseFail

\* scan_once
ParseValue(t, i) ==
    IF i > Len(t) THEN ParseFail
    ELSE CASE t[i] = QUOTE ->
                LET s == ScanString(t, i + 1, i + 1) IN
                IF s.ok THEN ParseOk(JStr(s.v), s.i) ELSE ParseFail
           [] t[i] = "[" ->
                LET j == SkipWs(t, i + 1) IN
                IF j <= Len(t) /\ t[j] = "]" THEN ParseOk(JArr(<<>>), j + 1)
                ELSE ParseElems(t, j, <<>>)
           [] t[i] = "{" ->
                LET j == SkipWs(t, i + 1) IN
                IF j <= Len(t) /\ t[j] = "}" THEN ParseOk(JObj(<<>>), j + 1)
                ELSE ParseMembers(t, j, <<>>)
           [] t[i] = "null" -> ParseOk(JNull, i + 1)
           [] IsDigit(t[i]) ->
                LET j == SkipDigits(t, i) IN ParseOk(JNum(SubSeq(t, i, j - 1)), j)
           [] OTHER -> ParseFail

\* json.loads(text): one value, whitespace around it, nothing else;
\* ok = FALSE stands for json.JSONDecodeError
json_loads(text) ==
    LET r == ParseValue(text, SkipWs(text, 1)) IN
    IF r.ok /\ SkipWs(text, r.i) = Len(text) + 1 THEN r ELSE ParseFail

(***************************************************************************)
(* The response parser                                                     *)
(***************************************************************************)
\* re.sub of the fence pattern (three backticks, optionally followed by the
\* word json) by the empty string: every leftmost non-overlapping match goes
RECURSIVE StripFences(_, _)
StripFences(t, i) ==
    LET starts == {j \in i..(Len(t) - 2) :
                       t[j] = BACKTICK /\ t[j + 1] = BACKTICK /\ t[j + 2] = BACKTICK}
    IN  IF starts = {} THEN SubSeq(t, i, Len(t))
        ELSE LET j == CHOOSE x \in starts : \A y \in starts : x <= y
                 after == IF j + 3 <= Len(t) /\ t[j + 3] = "json" THEN j + 4 ELSE j + 3
             IN  SubSeq(t, i, j - 1) \o StripFences(t, after)

\* a variant: the span ends at the first "]" after the first "[" (\[.*?\])
BracketSpan_NonGreedy(t) ==
    LET lbs == {i \in 1..Len(t) : t[i] = "["}
    IN  IF lbs = {} THEN <<>>
        ELSE LET first == CHOOSE i \in lbs : \A j \in lbs : i <= j
                 rbs   == {i \in (first + 1)..Len(t) : t[i] = "]"}
             IN  IF rbs = {} THEN <<>>
                 ELSE SubSeq(t, first, CHOOSE i \in rbs : \A j \in rbs : i <= j)

\* re.search(r"\[.*\]", text, re.DOTALL): from the first "[" to the last "]"
\* of the text, when the first "[" precedes it; <<>> when there is no match
\* (a match is never empty)
BracketSpan(t) ==
    LET lbs == {i \in 1..Len(t) : t[i] = "["}
        rbs == {i \in 1..Len(t) : t[i] = "]"}
    IN  IF lbs = {} \/ rbs = {} THEN <<>>
        ELSE LET first == CHOOSE i \in lbs : \A j \in lbs : i <= j
                 last  == CHOOSE i \in rbs : \A j \in rbs : i >= j
             IN  IF first < last THEN SubSeq(t, first, last) ELSE <<>>

\* What _extract_json_array does: [exc, v], the exception it raised ("none"
\* when it returned) and the parsed value it returned
ValueErrorResult == [exc |-> "ValueError", v |-> JNull]
Returned(parsed) == [exc |-> "none", v |-> parsed]

\* a variant: a parsed value is accepted when it is a non-empty list
\* (if parsed and isinstance(parsed, list))
_extract_json_array_Truthy(text) ==
    LET stripped == strip(StripFences(text, 1))
        direct   == json_loads(stripped)
        span     == BracketSpan(stripped)
        inner    == json_loads(span)
    IN  IF direct.ok /\ IsList(direct.v) /\ direct.v.e # <<>> THEN Returned(direct.v)
        ELSE IF span # <<>> /\ inner.ok /\ IsList(inner.v) /\ inner.v.e # <<>>
             THEN Returned(inner.v)
        ELSE ValueErrorResult

\* a variant: the direct parse is returned whatever its type (no isinstance
\* check on it)
_extract_json_array_AnyJson(text) ==
    LET stripped == strip(StripFences(text, 1))
        direct   == json_loads(stripped)
        span     == BracketSpan(stripped)
        inner    == json_loads(span)
    IN  IF direct.ok THEN Returned(direct.v)
        ELSE IF span # <<>> /\ inner.ok /\ IsList(inner.v) THEN Returned(inner.v)
        ELSE ValueErrorResult

\* _extract_json_array(text): the parsed list, or ValueError
_extract_json_array(text) ==
    LET stripped == strip(StripFences(text, 1))
        direct   == json_loads(stripped)
        span     == BracketSpan(stripped)
        inner    == json_loads(span)
    IN  IF direct.ok /\ IsList(direct.v) THEN Returned(direct.v)
        ELSE IF span # <<>> /\ inner.ok /\ IsList(inner.v) THEN Returned(inner.v)
        ELSE ValueErrorResult

(***************************************************************************)
(* Transcript truncation (text_utils.py)                                   *)
(***************************************************************************)
\* str.rfind("."), as a 0-based index; -1 when there is none
rfind_period(s) ==
    LET ps == {i \in 1..Len(s) : s[i] = "."}
    IN  IF ps = {} THEN -1 ELSE (CHOOSE i \in ps : \A j \in ps : i >= j) - 1

\* text[:n] for n >= 0
Prefix(text, n) == SubSeq(text, 1, IF n < Len(text) THEN n ELSE Len(text))

\* a variant: the cut keeps one character more than max_chars
truncate_transcript_OneMore(text, max_chars) ==
    IF Len(text) <= max_chars THEN text
    ELSE LET truncated   == Prefix(text, max_chars + 1)
             last_period == rfind_period(truncated)
         IN  strip(IF 10 * last_period > 8 * max_chars
                   THEN Prefix(truncated, last_period + 1)
                   ELSE truncated)

\* a variant: the result is stripped on every path
truncate_transcript_AlwaysStrips(text, max_chars) ==
    LET truncated   == Prefix(text, max_chars)
        last_period == rfind_period(truncated)
    IN  strip(IF Len(text) > max_chars /\ 10 * last_period > 8 * max_chars
              THEN Prefix(truncated, last_period + 1)
              ELSE truncated)

\* truncate_transcript(text, max_chars); last_period > max_chars * 0.8 is
\* compared in tenths: the double 0.8 lies above 4/5, so max_chars * 0.8 is
\* never below the exact product and an integer last_period exceeds the one
\* exactly when it exceeds the other
truncate_transcript(text, max_chars) ==
    IF Len(text) <= max_chars THEN text
    ELSE LET truncated   == Prefix(text, max_chars)
             last_period == rfind_period(truncated)
         IN  strip(IF 10 * last_period > 8 * max_chars
                   THEN Prefix(truncated, last_period + 1)
                   ELSE truncated)

(***************************************************************************)
(* Transcript cleaning (text_utils.py).  In a transcript a letter or digit *)
(* is one character and each word of the filler phrases is written as one  *)
(* character.                                                              *)
(***************************************************************************)
\* the words of the filler patterns, with their lengths in characters
WordLength ==
    [subscribe |-> 9, to |-> 2, my |-> 2, channel |-> 7, like |-> 4, and |-> 3,
     hit |-> 3, the |-> 3, notification |-> 12, bell |-> 4, follow |-> 6,
     me |-> 2, on |-> 2, instagram |-> 9, twitter |-> 7, facebook |-> 8,
     tiktok |-> 6, check |-> 5, out |-> 3, website |-> 7, link |-> 4, in |-> 2,
     bio |-> 3, use |-> 3, code |-> 4, for |-> 3, off |-> 3, sponsored |-> 9,
     by |-> 2, this |-> 4, video |-> 5, is |-> 2, brought |-> 7, you |-> 3]

\* re.IGNORECASE: the lower-case form of a character
Lower(c) ==
    CASE c = "Sponsored" -> "sponsored"
      [] c = "H"         -> "h"
      [] OTHER           -> c

\* [A-Za-z]
IsAlpha(c) == Lower(c) \in {"a", "b", "c", "d", "h"} \cup DOMAIN WordLength

\* \w
IsWordChar(c) == IsAlpha(c) \/ IsDigit(c) \/ c = "_"

\* the number of characters c stands for
CharLen(c) == IF Lower(c) \in DOMAIN WordLength THEN WordLength[Lower(c)] ELSE 1

RECURSIVE SkipWordChars(_, _)
SkipWordChars(t, i) ==
    IF i <= Len(t) /\ IsWordChar(t[i]) THEN SkipWordChars(t, i + 1) ELSE i

\* \[.*?\] : from "[" to the nearest "]" with no newline in between
BracketNoise(t, i) ==
    IF t[i] # "[" THEN 0
    ELSE LET ends == {j \in (i + 1)..Len(t) :
                         t[j] = "]" /\ \A k \in (i + 1)..(j - 1) : t[k] # "\n"}
         IN  IF ends = {} THEN 0
             ELSE (CHOOSE j \in ends : \A k \in ends : j <= k) + 1

\* [A-Za-z0-9 _]
IsLabelChar(c) == IsAlpha(c) \/ IsDigit(c) \/ c \in {" ", "_"}

RECURSIVE SkipLabelChars(_, _)
SkipLabelChars(t, i) ==
    IF i <= Len(t) /\ IsLabelChar(t[i]) THEN SkipLabelChars(t, i + 1) ELSE i

RECURSIVE TotalLen(_, _, _)
TotalLen(t, i, j) == IF i > j THEN 0 ELSE CharLen(t[i]) + TotalLen(t, i + 1, j)

\* ^[A-Za-z][A-Za-z0-9 _]{0,30}:\s* with re.MULTILINE: at the start of a
\* line a letter, at most 30 more label characters, a colon, and the
\* whitespace after it
SpeakerLabel(t, i) ==
    IF ~(i = 1 \/ t[i - 1] = "\n") \/ ~IsAlpha(t[i]) THEN 0
    ELSE LET j == SkipLabelChars(t, i + 1) IN
         IF j <= Len(t) /\ t[j] = ":" /\ TotalLen(t, i, j - 1) - 1 <= 30
         THEN SkipWs(t, j + 1)
         ELSE 0

\* \b after a word character at i - 1
BoundaryAt(t, i) == i > Len(t) \/ ~IsWordChar(t[i])

TwoDigitsAt(t, i) == i + 1 <= Len(t) /\ IsDigit(t[i]) /\ IsDigit(t[i + 1])

\* \b\d{1,2}:\d{2}(?::\d{2})?\b
Timestamp(t, i) ==
    IF ~IsDigit(t[i]) \/ (i > 1 /\ IsWordChar(t[i - 1])) THEN 0
    ELSE LET j == SkipDigits(t, i) IN
         IF ~(j - i \in {1, 2} /\ j <= Len(t) /\ t[j] = ":" /\ TwoDigitsAt(t, j + 1))
         THEN 0
         ELSE LET k == j + 3 IN
              IF k <= Len(t) /\ t[k] = ":" /\ TwoDigitsAt(t, k + 1) /\ BoundaryAt(t, k + 3)
              THEN k + 3
              ELSE IF BoundaryAt(t, k) THEN k ELSE 0

\* the pieces of a filler pattern
W(words) == [kind |-> "word", words |-> words]
S1 == [kind |-> "\\s+", words |-> {}]
W1 == [kind |-> "\\w+", words |-> {}]
D1 == [kind |-> "\\d+", words |-> {}]
OptPercent == [kind |-> "%?", words |-> {}]

\* word \s+ word \s+ ... for a sequence of sets of words
Phrase(ws) ==
    [n \in 1..(2 * Len(ws) - 1) |-> IF n % 2 = 1 THEN W(ws[(n + 1) \div 2]) ELSE S1]

\* filler_patterns: each the sequence of its alternatives
filler_patterns ==
    << <<Phrase(<<{"subscribe"}, {"to"}, {"my"}, {"channel"}>>)>>,
       <<Phrase(<<{"like"}, {"and"}, {"subscribe"}>>)>>,
       <<Phrase(<<{"hit"}, {"the"}, {"notification"}, {"bell"}>>)>>,
       <<Phrase(<<{"follow"}, {"me"}, {"on"},
                  {"instagram", "twitter", "facebook", "tiktok"}>>)>>,
       <<Phrase(<<{"check"}, {"out"}, {"my"}, {"website"}>>),
         Phrase(<<{"check"}, {"out"}, {"my"}, {"link"}, {"in"}, {"bio"}>>)>>,
       <<Phrase(<<{"use"}, {"code"}>>) \o <<S1, W1, S1, W({"for"}), S1, D1, OptPercent, S1,
                                            W({"off"})>> >>,
       <<Phrase(<<{"sponsored"}, {"by"}>>)>>,
       <<Phrase(<<{"this"}, {"video"}, {"is"}, {"brought"}, {"to"}, {"you"}, {"by"}>>)>> >>

\* the index after the pieces k.. of pat matched at i, 0 when they do not match
RECURSIVE MatchPieces(_, _, _, _)
MatchPieces(t, i, pat, k) ==
    IF k > Len(pat) THEN i
    ELSE LET j == CASE pat[k].kind = "word" ->
                        IF i <= Len(t) /\ Lower(t[i]) \in pat[k].words THEN i + 1 ELSE 0
                     [] pat[k].kind = "\\s+" -> IF SkipWs(t, i) > i THEN SkipWs(t, i) ELSE 0
                     [] pat[k].kind = "\\w+" ->
                        IF SkipWordChars(t, i) > i THEN SkipWordChars(t, i) ELSE 0
                     [] pat[k].kind = "\\d+" -> IF SkipDigits(t, i) > i THEN SkipDigits(t, i) ELSE 0
                     [] pat[k].kind = "%?" -> IF i <= Len(t) /\ t[i] = "%" THEN i + 1 ELSE i
         IN  IF j = 0 THEN 0 ELSE MatchPieces(t, j, pat, k + 1)

\* the first alternative of the pattern that matches at i
RECURSIVE MatchAlternatives(_, _, _, _)
MatchAlternatives(t, i, alts, a) ==
    IF a > Len(alts) THEN 0
    ELSE LET j == MatchPieces(t, i, alts[a], 1) IN
         IF j > 0 THEN j ELSE MatchAlternatives(t, i, alts, a + 1)

\* \s+
Whitespace(t, i) == SkipWs(t, i)

\* the index after the match of the pattern that starts at i, 0 when none
\* starts there
MatchAt(pattern, t, i) ==
    CASE pattern.re = "bracket noise" -> BracketNoise(t, i)
      [] pattern.re = "speaker label" -> SpeakerLabel(t, i)
      [] pattern.re = "timestamp"     -> Timestamp(t, i)
      [] pattern.re = "whitespace"    -> Whitespace(t, i)
      [] pattern.re = "filler"        -> MatchAlternatives(t, i, pattern.alts, 1)

\* re.sub(pattern, repl, t): the text is scanned from the left, from i on,
\* and each match is replaced by repl
RECURSIVE re_sub(_, _, _, _)
re_sub(pattern, repl, t, i) ==
    IF i > Len(t) THEN <<>>
    ELSE LET j == MatchAt(pattern, t, i) IN
         IF j > i THEN repl \o re_sub(pattern, repl, t, j)
         ELSE <<t[i]>> \o re_sub(pattern, repl, t, i + 1)

\* for pattern in filler_patterns: text = re.sub(pattern, " ", text)
RECURSIVE RemoveFillers(_, _)
RemoveFillers(t, n) ==
    IF n > Len(filler_patterns) THEN t
    ELSE RemoveFillers(
             re_sub([re |-> "filler", alts |-> filler_patterns[n]], <<" ">>, t, 1), n + 1)

\* clean_transcript(raw)
clean_transcript(raw) ==
    LET no_noise  == re_sub([re |-> "bracket noise"], <<" ">>, raw, 1)
        no_labels == re_sub([re |-> "speaker label"], <<>>, no_noise, 1)
        no_times  == re_sub([re |-> "timestamp"], <<" ">>, no_labels, 1)
        no_filler == RemoveFillers(no_times, 1)
    IN  strip(re_sub([re |-> "whitespace"], <<" ">>, no_filler, 1))

(***************************************************************************)
(* Exceptions: the classes that occur and Python's except matching         *)
(***************************************************************************)
BaseOf(cls) ==
    CASE cls = "JSONDecodeError"  -> "ValueError"
      [] cls = "ValidationError"  -> "ValueError"
      [] cls = "ValueError"       -> "Exception"
      [] cls = "KeyError"         -> "Exception"
      [] cls = "TypeError"        -> "Exception"
      [] cls = "AttributeError"   -> "Exception"
      [] cls = "ConnectError"     -> "Exception"
      [] cls = "TimeoutException" -> "Exception"
      [] cls = "RuntimeError"     -> "Exception"
      [] cls = "UnexpectedResponse" -> "Exception"
      [] cls = "Exception"        -> "BaseException"
      [] OTHER                    -> "object"

\* issubclass(cls, base)
RECURSIVE IsSubclass(_, _)
IsSubclass(cls, base) ==
    \/ cls = base
    \/ cls \notin {"BaseException", "object"} /\ IsSubclass(BaseOf(cls), base)

\* except <classes>: does the clause catch an exception of class exc
Catches(classes, exc) == \E c \in classes : IsSubclass(exc, c)

(***************************************************************************)
(* The record schema (metadata.py).  A construction step yields            *)
(* [exc, v]: the exception class it raised ("none" if it returned) and the *)
(* model built.                                                            *)
(***************************************************************************)
Built(v) == [exc |-> "none", v |-> v]
Raises(cls) == [exc |-> cls, v |-> <<>>]

Key(name) == <<name>>
EmptyStr == JStr(<<>>)
EmptyDict == JObj(<<>>)
EmptyList == JArr(<<>>)

\* DiagnosticLayer(related_inner_issues=.., ..): four required str fields
DiagnosticLayer(related_inner_issues, reality_commitment_check, hidden_benefit, energy_node) ==
    IF /\ IsStr(related_inner_issues) /\ IsStr(reality_commitment_check)
       /\ IsStr(hidden_benefit) /\ IsStr(energy_node)
    THEN Built([related_inner_issues     |-> related_inner_issues.s,
                reality_commitment_check |-> reality_commitment_check.s,
                hidden_benefit           |-> hidden_benefit.s,
                energy_node              |-> energy_node.s])
    ELSE Raises("ValidationError")

\* a required str field of a model built from keyword arguments kw
RequiredStr(kw, name) == HasKey(kw, Key(name)) /\ IsStr(GetItem(kw, Key(name)))

\* Pillars(**kw): kw must be a mapping; three required str fields; other
\* keys are ignored
Pillars(kw) ==
    IF ~IsDict(kw) THEN Raises("TypeError")
    ELSE IF /\ RequiredStr(kw, "intervention_narrative")
            /\ RequiredStr(kw, "intervention_action")
            /\ RequiredStr(kw, "intervention_shift")
    THEN Built([intervention_narrative |-> GetItem(kw, Key("intervention_narrative")).s,
                intervention_action    |-> GetItem(kw, Key("intervention_action")).s,
                intervention_shift     |-> GetItem(kw, Key("intervention_shift")).s])
    ELSE Raises("ValidationError")

\* Atmosphere(**kw)
Atmosphere(kw) ==
    IF ~IsDict(kw) THEN Raises("TypeError")
    ELSE IF RequiredStr(kw, "tone") /\ RequiredStr(kw, "pacing")
    THEN Built([tone   |-> GetItem(kw, Key("tone")).s,
                pacing |-> GetItem(kw, Key("pacing")).s])
    ELSE Raises("ValidationError")

\* overflow: List[str]
IsListOfStr(v) == IsList(v) /\ \A i \in 1..Len(v.e) : IsStr(v.e[i])

\* EnergyNode(video_id=.., ..): video_id and video_url are the caller's str
\* arguments; main_question and category are required str fields
EnergyNode(video_id, video_url, main_question, category, diagnostic_layer, pillars, atmosphere, overflow) ==
    IF IsStr(main_question) /\ IsStr(category) /\ IsListOfStr(overflow)
    THEN Built([video_id         |-> video_id,
                video_url        |-> video_url,
                main_question    |-> main_question.s,
                category         |-> category.s,
                diagnostic_layer |-> diagnostic_layer,
                pillars          |-> pillars,
                atmosphere       |-> atmosphere,
                overflow         |-> [i \in 1..Len(overflow.e) |-> overflow.e[i].s]])
    ELSE Raises("ValidationError")

(***************************************************************************)
(* Per-item validation (extractor.py)                                      *)
(***************************************************************************)
\* a variant: the node is built from the item's own provenance keys when it
\* has them (EnergyNode(video_id=.., video_url=.., **item) overridden)
BuildNode_ItemProvenance(item, video_id, video_url) ==
    IF ~IsDict(item) THEN Raises("AttributeError")
    ELSE LET dl_raw == DictGet(item, Key("diagnostic_layer"), EmptyDict) IN
    IF ~IsDict(dl_raw) THEN Raises("AttributeError")
    ELSE LET diagnostic_layer ==
                 DiagnosticLayer(DictGet(dl_raw, Key("related_inner_issues"), EmptyStr),
                                 DictGet(dl_raw, Key("reality_commitment_check"), EmptyStr),
                                 DictGet(dl_raw, Key("hidden_benefit"), EmptyStr),
                                 DictGet(dl_raw, Key("energy_node"), EmptyStr)) IN
    IF diagnostic_layer.exc # "none" THEN diagnostic_layer
    ELSE IF ~HasKey(item, Key("main_question")) THEN Raises("KeyError")
    ELSE IF ~HasKey(item, Key("category")) THEN Raises("KeyError")
    ELSE IF ~HasKey(item, Key("pillars")) THEN Raises("KeyError")
    ELSE LET pillars == Pillars(GetItem(item, Key("pillars"))) IN
    IF pillars.exc # "none" THEN pillars
    ELSE IF ~HasKey(item, Key("atmosphere")) THEN Raises("KeyError")
    ELSE LET atmosphere == Atmosphere(GetItem(item, Key("atmosphere"))) IN
    IF atmosphere.exc # "none" THEN atmosphere
    ELSE EnergyNode(IF RequiredStr(item, "video_id")
                    THEN GetItem(item, Key("video_id")).s ELSE video_id,
                    IF RequiredStr(item, "video_url")
                    THEN GetItem(item, Key("video_url")).s ELSE video_url,
                    GetItem(item, Key("main_question")),
                    GetItem(item, Key("category")),
                    diagnostic_layer.v, pillars.v, atmosphere.v,
                    DictGet(item, Key("overflow"), EmptyList))

\* The body of the try block of _validate_nodes for one item: the node, or
\* the first exception raised, in evaluation order
BuildNode(item, video_id, video_url) ==
    IF ~IsDict(item) THEN Raises("AttributeError")
    ELSE LET dl_raw == DictGet(item, Key("diagnostic_layer"), EmptyDict) IN
    IF ~IsDict(dl_raw) THEN Raises("AttributeError")
    ELSE LET diagnostic_layer ==
                 DiagnosticLayer(DictGet(dl_raw, Key("related_inner_issues"), EmptyStr),
                                 DictGet(dl_raw, Key("reality_commitment_check"), EmptyStr),
                                 DictGet(dl_raw, Key("hidden_benefit"), EmptyStr),
                                 DictGet(dl_raw, Key("energy_node"), EmptyStr)) IN
    IF diagnostic_layer.exc # "none" THEN diagnostic_layer
    ELSE IF ~HasKey(item, Key("main_question")) THEN Raises("KeyError")
    ELSE IF ~HasKey(item, Key("category")) THEN Raises("KeyError")
    ELSE IF ~HasKey(item, Key("pillars")) THEN Raises("KeyError")
    ELSE LET pillars == Pillars(GetItem(item, Key("pillars"))) IN
    IF pillars.exc # "none" THEN pillars
    ELSE IF ~HasKey(item, Key("atmosphere")) THEN Raises("KeyError")
    ELSE LET atmosphere == Atmosphere(GetItem(item, Key("atmosphere"))) IN
    IF atmosphere.exc # "none" THEN atmosphere
    ELSE EnergyNode(video_id, video_url,
                    GetItem(item, Key("main_question")),
                    GetItem(item, Key("category")),
                    diagnostic_layer.v, pillars.v, atmosphere.v,
                    DictGet(item, Key("overflow"), EmptyList))

\* the except clause around one item
ItemExcept == {"Exception"}

\* a variant: no try/except around the item
ValidateItem_Propagates(nodes, item, video_id, video_url) ==
    LET b == BuildNode(item, video_id, video_url) IN
    IF b.exc = "none" THEN Built(Append(nodes, b.v))
    ELSE [exc |-> b.exc, v |-> nodes]

\* a variant: nodes.insert(0, node)
ValidateItem_Prepends(nodes, item, video_id, video_url) ==
    LET b == BuildNode(item, video_id, video_url) IN
    IF b.exc = "none" THEN Built(<<b.v>> \o nodes)
    ELSE IF Catches(ItemExcept, b.exc) THEN Built(nodes)
    ELSE [exc |-> b.exc, v |-> nodes]

\* nodes after one loop iteration: append the node, or skip the item when the
\* except clause catches; an exception it does not catch leaves the function
\* [exc, v]: exc # "none" when the loop was left by an exception
ValidateItem(nodes, item, video_id, video_url) ==
    LET b == BuildNode(item, video_id, video_url) IN
    IF b.exc = "none" THEN Built(Append(nodes, b.v))
    ELSE IF Catches(ItemExcept, b.exc) THEN Built(nodes)
    ELSE [exc |-> b.exc, v |-> nodes]

RECURSIVE ValidateFrom(_, _, _, _, _)
ValidateFrom(raw_list, i, nodes, video_id, video_url) ==
    IF i > Len(raw_list) THEN Built(nodes)
    ELSE LET step == ValidateItem(nodes, raw_list[i], video_id, video_url) IN
         IF step.exc # "none" THEN step
         ELSE ValidateFrom(raw_list, i + 1, step.v, video_id, video_url)

\* _validate_nodes(raw_list, video_id, video_url)
_validate_nodes(raw_list, video_id, video_url) ==
    ValidateFrom(raw_list, 1, <<>>, video_id, video_url)

(***************************************************************************)
(* The model's answers.  The prompt asks for an array of objects of the    *)
(* schema; the model may answer anything.  Items are built from a complete *)
(* object by dropping or replacing one field.                              *)
(***************************************************************************)
Word(w) == JStr(<<w>>)

\* obj without key
Without(obj, key) ==
    JObj(SelectSeq(obj.m, LAMBDA p : p[1] # Key(key)))

\* obj with key set to value (in place, or appended)
With(obj, key, value) ==
    JObj(DictFromPairs(<< <<Key(key), value>> >>, obj.m))

DiagnosticObject(tag) ==
    JObj(<< <<Key("related_inner_issues"), JStr(<<"issues", tag>>)>>,
            <<Key("reality_commitment_check"), JStr(<<"check", tag>>)>>,
            <<Key("hidden_benefit"), JStr(<<"benefit", tag>>)>>,
            <<Key("energy_node"), JStr(<<"blocked_energy", tag>>)>> >>)

PillarsObject(tag) ==
    JObj(<< <<Key("intervention_narrative"), JStr(<<"narrative", tag>>)>>,
            <<Key("intervention_action"), JStr(<<"action", tag>>)>>,
            <<Key("intervention_shift"), JStr(<<"shift", tag>>)>> >>)

AtmosphereObject(tag) ==
    JObj(<< <<Key("tone"), JStr(<<"warm", tag>>)>>,
            <<Key("pacing"), JStr(<<"slow", tag>>)>> >>)

\* an object that follows the schema of the prompt
CompleteItem(tag) ==
    JObj(<< <<Key("main_question"), JStr(<<"question", tag>>)>>,
            <<Key("category"), JStr(<<"Anxiety", tag>>)>>,
            <<Key("diagnostic_layer"), DiagnosticObject(tag)>>,
            <<Key("pillars"), PillarsObject(tag)>>,
            <<Key("atmosphere"), AtmosphereObject(tag)>>,
            <<Key("overflow"), JArr(<<JStr(<<"gem", tag>>)>>)>> >>)

\* an object that also carries provenance keys of its own
SpoofItem ==
    With(With(CompleteItem("2"), "video_id", Word("spoofed")), "video_url", Word("spoofed"))

\* the items the model combines freely into arrays
Items ==
    { CompleteItem("1"),
      SpoofItem,
      Without(CompleteItem("3"), "pillars"),
      Without(CompleteItem("4"), "diagnostic_layer"),
      With(CompleteItem("5"), "diagnostic_layer",
           JObj(<< <<Key("energy_node"), Word("depleted_energy")>> >>)),
      With(CompleteItem("6"), "main_question", EmptyStr),
      With(CompleteItem("7"), "atmosphere",
           With(AtmosphereObject("7"), "tone", JStr(<<" ">>))),
      With(CompleteItem("8"), "category", JNum(<<"1">>)),
      With(CompleteItem("9"), "atmosphere", Word("calm")),
      JNum(<<"1">>) }

\* further items, each answered as an array of its own
SingleItems ==
    { With(CompleteItem("10"), "diagnostic_layer", JNull),
      With(CompleteItem("11"), "pillars",
           Without(PillarsObject("11"), "intervention_shift")),
      With(CompleteItem("12"), "pillars",
           With(PillarsObject("12"), "intervention_shift", JNull)),
      With(CompleteItem("13"), "overflow", JArr(<<JNum(<<"2">>)>>)),
      With(CompleteItem("14"), "overflow", JNull),
      Without(CompleteItem("15"), "overflow"),
      Without(CompleteItem("16"), "main_question"),
      Without(CompleteItem("17"), "category"),
      With(CompleteItem("18"), "note", Word("extra")),
      With(CompleteItem("19"), "diagnostic_layer",
           With(DiagnosticObject("19"), "hidden_benefit", JNum(<<"2">>))),
      Word("text"),
      JNull,
      JArr(<<CompleteItem("20")>>) }

\* the longest array the model answers with
MaxItems == 2

RECURSIVE SeqsUpTo(_, _)
SeqsUpTo(S, n) ==
    IF n = 0 THEN {<<>>}
    ELSE LET shorter == SeqsUpTo(S, n - 1)
         IN  shorter \cup {Append(q, x) : q \in {r \in shorter : Len(r) = n - 1}, x \in S}

Arrays == SeqsUpTo(Items, MaxItems) \cup {<<x>> : x \in SingleItems}

FENCE == <<BACKTICK, BACKTICK, BACKTICK>>

\* the ways the model wraps the array it was asked for
Bare(array)       == json_dumps(JArr(array))
Fenced(array)     == FENCE \o <<"\n">> \o Bare(array) \o <<"\n">> \o FENCE
FencedJson(array) == FENCE \o <<"json", "\n">> \o Bare(array) \o <<"\n">> \o FENCE
InProse(array)    ==
    <<"Here", " ", "is", " ", "the", " ", "result", ":", " ">> \o Bare(array)
        \o <<" ", "Hope", " ", "this", " ", "helps", "!">>

\* An answer is its text, with a note of the array the model meant by it
\* (holds = FALSE: the text is not an array the model was asked for).
Answer(text, array) == [text |-> text, holds |-> TRUE, array |-> array]
Other(text) == [text |-> text, holds |-> FALSE, array |-> <<>>]

\* answers that hold the array asked for
ArrayResponses ==
    {Answer(Bare(a), a) : a \in Arrays}
        \cup {Answer(Fenced(a), a) : a \in {b \in Arrays : Len(b) <= 1}}
        \cup {Answer(FencedJson(a), a) : a \in {b \in Arrays : Len(b) <= 1}}
        \cup {Answer(InProse(a), a) : a \in {b \in Arrays : Len(b) <= 1}}

\* answers that do not: prose, a cut-off array, a bare object, a scalar,
\* two arrays in one text, an object around the array
OtherResponses ==
  { Other(t) : t \in
    { <<"no", " ", "array", " ", "here">>,
      <<>>,
      SubSeq(Bare(<<CompleteItem("1")>>), 1, Len(Bare(<<CompleteItem("1")>>)) - 1),
      json_dumps(CompleteItem("1")),
      json_dumps(Without(CompleteItem("1"), "overflow")),
      <<"null">>,
      Bare(<<CompleteItem("1")>>) \o <<" ", "and", " ">> \o Bare(<<SpoofItem>>),
      json_dumps(JObj(<< <<Key("nodes"), JArr(<<CompleteItem("1")>>)>> >>)) } }

Responses == ArrayResponses \cup OtherResponses

\* return _extract_json_array(raw), for every text the model answers with
ParsedResponses ==
    {[raw |-> raw, parsed |-> _extract_json_array(raw.text)] : raw \in Responses}

\* the exceptions the model client raises from invoke
ClientErrors == {"ConnectError", "TimeoutException", "ValueError"}

(***************************************************************************)
(* The caller's arguments                                                  *)
(***************************************************************************)
\* the character budget passed as max_chars
MaxChars == 5

Transcripts ==
    { <<"a", " ", "b", ".">>,
      <<"a", " ", "b", ".", " ", "c", " ", "d", ".">>,
      <<"[", "a", "]", " ", "b", ".">> }

Sources ==
    { [video_id |-> <<"test123">>, video_url |-> <<"https://youtube.com/watch?v=test123">>],
      [video_id |-> <<"abc">>, video_url |-> <<"https://youtu.be/abc">>] }

\* LLM_TYPE of the environment
LlmTypes == {"ollama", "groq"}

(***************************************************************************)
(* The retry policy of _call_llm_and_parse                                 *)
(***************************************************************************)
\* stop_after_attempt(3)
MAX_ATTEMPTS == 3
\* wait_exponential(multiplier=1, min=2, max=10)
WAIT_MULTIPLIER == 1
WAIT_MIN == 2
WAIT_MAX == 10
\* a variant: retry on any exception
RetryTypes_AnyException == {"Exception"}

\* retry_if_exception_type((ValueError, json.JSONDecodeError))
RetryTypes == {"ValueError", "JSONDecodeError"}
\* a variant: the handler of extract_energy_nodes catches parse errors only
ExtractExcept_OnlyValueError == {"ValueError"}

\* except Exception in extract_energy_nodes
ExtractExcept == {"Exception"}

RECURSIVE Pow2(_)
Pow2(n) == IF n = 0 THEN 1 ELSE 2 * Pow2(n - 1)

Max2(a, b) == IF a >= b THEN a ELSE b
Min2(a, b) == IF a <= b THEN a ELSE b

\* a variant: the exponential wait without its lower bound
wait_exponential_NoFloor(n) ==
    Min2(WAIT_MULTIPLIER * Pow2(n - 1), WAIT_MAX)

\* the seconds slept after attempt n failed
wait_exponential(n) ==
    Max2(Max2(0, WAIT_MIN), Min2(WAIT_MULTIPLIER * Pow2(n - 1), WAIT_MAX))

\* a variant: the attempt budget is compared one too late
ShouldRetry_OneTooMany(n, exc) == Catches(RetryTypes, exc) /\ n <= MAX_ATTEMPTS

\* a variant: the attempt budget is compared one too early
ShouldRetry_StopsEarly(n, exc) == Catches(RetryTypes, exc) /\ n < MAX_ATTEMPTS - 1

\* tenacity: is a further attempt made after attempt n raised exc
ShouldRetry(n, exc) == Catches(RetryTypes, exc) /\ n < MAX_ATTEMPTS

\* get_llm(): a client for LLM_TYPE ollama, None otherwise
get_llm(type) == IF type = "ollama" THEN "ChatOllama" ELSE "None"

(***************************************************************************)
(* extract_energy_nodes as a state machine                                 *)
(***************************************************************************)
\* what invoke did: the exception it raised, or the answer it returned
InvokeRaised(e)   == [exc |-> e, text |-> <<>>, holds |-> FALSE, array |-> <<>>]
InvokeReturned(r) == [exc |-> "none", text |-> r.text, holds |-> r.holds, array |-> r.array]
NoResponse        == InvokeRaised("not invoked")

\* how an attempt ended: what invoke did ("returned", the exception it
\* raised, "not invoked") and the exception that left _call_llm_and_parse
Outcome(invoke, exc) == [invoke |-> invoke, exc |-> exc]

VARIABLES
    pc,             \* position in extract_energy_nodes
    llm_type,       \* LLM_TYPE
    transcript,     \* argument
    source,         \* arguments video_id and video_url
    max_chars,      \* argument
    truncated,      \* local
    attempt_number, \* tenacity's attempt counter
    prompts,        \* the transcripts sent to the model, one per invoke
    response,       \* what the last invoke did
    outcomes,       \* how each attempt ended
    sleeps,         \* the seconds slept between attempts
    pending,        \* the exception propagating out of _call_llm_and_parse
    raw_list,       \* local
    nodes,          \* local
    result,         \* the value returned to the caller
    escaped,        \* the exception that left extract_energy_nodes, or "none"
    call,           \* a helper function called on its own, with its arguments
    ret,            \* what that call returned or raised
    recovered,      \* the array recovered before it was serialized again
    batch_pc,       \* position in process_csv
    links,          \* local of process_csv: the unique links of the file
    cursor,         \* the index in links of the url of the for loop
    all_nodes,      \* local of process_csv
    failed_links,   \* local of process_csv
    runs,           \* history: how process_youtube_url went for each url so far
    report,         \* the response of process_csv
    singletons,     \* the module globals _client and _embedder of qdrant_db
    upserts,        \* history: the batches of points sent to the store
    threads,        \* the workers inside get_client or get_embedder
    constructed     \* history: the handles constructed so far, of each kind

vars == <<pc, llm_type, transcript, source, max_chars, truncated, attempt_number,
          prompts, response, outcomes, sleeps, pending, raw_list, nodes, result,
          escaped, call, ret, recovered, batch_pc, links, cursor, all_nodes,
          failed_links, runs, report, singletons, upserts, threads, constructed>>

\* the state of process_csv
batch == <<batch_pc, links, cursor, all_nodes, failed_links, runs, report>>

\* the state of the store module and of its callers
qdrant == <<singletons, upserts, threads>>

\* the state outside one call of extract_energy_nodes, but for the count of
\* the handles constructed
outside == <<call, ret, recovered, batch, qdrant>>

\* None, for a module global that holds no handle yet
None == 0

\* the workers of the thread pool that serves the requests
MaxWorkers == 2
Workers == 1..MaxWorkers

\* a worker that is in neither get_client nor get_embedder, and was in none
Outside == [at |-> "outside", kind |-> "none", made |-> None, got |-> None]

\* a fresh process: no handle exists, nothing was sent, no worker runs
FreshProcess ==
    /\ singletons = [client |-> None, embedder |-> None]
    /\ upserts = <<>>
    /\ threads = [w \in Workers |-> Outside]
    /\ constructed = [llm |-> 0, client |-> 0, embedder |-> 0]

\* one more handle of the kind is constructed; the handle is named by its
\* number
Construct(kind) == [constructed EXCEPT ![kind] = @ + 1]

\* no request to process_csv is under way
NoReport == [status |-> "none"]
NoBatch ==
    /\ batch_pc = "Idle"
    /\ links = <<>>
    /\ cursor = 0
    /\ all_nodes = <<>>
    /\ failed_links = <<>>
    /\ runs = <<>>
    /\ report = NoReport

\* no helper function is called on its own
NoCall == [fn |-> "none"]
NotCalled == [exc |-> "not called"]
NothingRecovered == [k |-> "nothing"]
NoHelperCall ==
    /\ call = NoCall
    /\ ret = NotCalled
    /\ recovered = NothingRecovered

Init ==
    /\ NoHelperCall
    /\ NoBatch
    /\ FreshProcess
    /\ pc = "Received"
    /\ llm_type \in LlmTypes
    /\ transcript \in Transcripts
    /\ source \in Sources
    /\ max_chars = MaxChars
    /\ truncated = <<>>
    /\ attempt_number = 0
    /\ prompts = <<>>
    /\ response = NoResponse
    /\ outcomes = <<>>
    /\ sleeps = <<>>
    /\ pending = "none"
    /\ raw_list = <<>>
    /\ nodes = <<>>
    /\ result = <<>>
    /\ escaped = "none"

\* extract_energy_nodes up to the call of _call_llm_and_parse
Truncate ==
    /\ pc = "Received"
    /\ truncated' = truncate_transcript(transcript, max_chars)
    /\ attempt_number' = 1
    /\ pc' = "Attempt"
    /\ UNCHANGED <<llm_type, transcript, source, max_chars, prompts, response,
                   outcomes, sleeps, pending, raw_list, nodes, result, escaped>>
    /\ UNCHANGED outside
    /\ UNCHANGED constructed

\* what tenacity does when an attempt ends: return the list, sleep and retry,
\* or re-raise
EndAttempt(invoke, exc, list) ==
    /\ outcomes' = Append(outcomes, Outcome(invoke, exc))
    /\ IF exc = "none"
       THEN /\ raw_list' = list
            /\ pc' = "Parsed"
            /\ UNCHANGED pending
       ELSE IF ShouldRetry(attempt_number, exc)
       THEN /\ pc' = "Backoff"
            /\ UNCHANGED <<raw_list, pending>>
       ELSE /\ pending' = exc
            /\ pc' = "Raised"
            /\ UNCHANGED raw_list
    /\ UNCHANGED <<llm_type, transcript, source, max_chars, truncated,
                   attempt_number, sleeps, nodes, result, escaped>>
    /\ UNCHANGED outside

\* an attempt with no client: llm.invoke on None
AttemptWithoutClient ==
    /\ pc = "Attempt"
    /\ get_llm(llm_type) = "None"
    /\ UNCHANGED <<prompts, response, constructed>>
    /\ EndAttempt("not invoked", "AttributeError", <<>>)

\* an attempt in which invoke raises
AttemptInvokeRaises ==
    /\ pc = "Attempt"
    /\ get_llm(llm_type) # "None"
    /\ constructed' = Construct("llm")
    /\ \E e \in ClientErrors :
        /\ prompts' = Append(prompts, truncated)
        /\ response' = InvokeRaised(e)
        /\ EndAttempt(e, e, <<>>)

\* the arrays the model answers with while a batch is processed: none, one
\* or two items, with and without an item that does not follow the schema
BatchArrays ==
    { <<>>,
      <<CompleteItem("1")>>,
      <<SpoofItem, CompleteItem("1")>>,
      <<CompleteItem("1"), Without(CompleteItem("3"), "pillars")>>,
      <<Without(CompleteItem("3"), "pillars")>> }

BatchResponses ==
    {r \in ParsedResponses :
        \/ r.raw.holds /\ r.raw.array \in BatchArrays /\ r.raw.text = Bare(r.raw.array)
        \/ r.raw.text = <<"no", " ", "array", " ", "here">>}

\* the answers of the model client: any of them when extract_energy_nodes
\* is called on its own, a few of each kind inside a batch
Answers == IF batch_pc = "Idle" THEN ParsedResponses ELSE BatchResponses

\* an attempt in which invoke returns a text, which is then parsed
AttemptInvokeReturns ==
    /\ pc = "Attempt"
    /\ get_llm(llm_type) # "None"
    /\ constructed' = Construct("llm")
    /\ \E r \in Answers :
        /\ prompts' = Append(prompts, truncated)
        /\ response' = InvokeReturned(r.raw)
        /\ EndAttempt("returned", r.parsed.exc, r.parsed.v.e)

\* tenacity sleeps, then starts the next attempt
Backoff ==
    /\ pc = "Backoff"
    /\ sleeps' = Append(sleeps, wait_exponential(attempt_number))
    /\ attempt_number' = attempt_number + 1
    /\ pc' = "Attempt"
    /\ UNCHANGED <<llm_type, transcript, source, max_chars, truncated, prompts,
                   response, outcomes, pending, raw_list, nodes, result, escaped>>
    /\ UNCHANGED outside
    /\ UNCHANGED constructed

\* a variant: the except clause logs and raises again
HandleFailure_Reraises ==
    /\ pc = "Raised"
    /\ escaped' = pending
    /\ pending' = "none"
    /\ pc' = "Done"
    /\ UNCHANGED <<llm_type, transcript, source, max_chars, truncated,
                   attempt_number, prompts, response, outcomes, sleeps, raw_list,
                   nodes, result>>
    /\ UNCHANGED outside
    /\ UNCHANGED constructed

\* the except clause of extract_energy_nodes: log and return []
HandleFailure ==
    /\ pc = "Raised"
    /\ IF Catches(ExtractExcept, pending)
       THEN result' = <<>> /\ UNCHANGED escaped
       ELSE escaped' = pending /\ UNCHANGED result
    /\ pending' = "none"
    /\ pc' = "Done"
    /\ UNCHANGED <<llm_type, transcript, source, max_chars, truncated,
                   attempt_number, prompts, response, outcomes, sleeps, raw_list,
                   nodes>>
    /\ UNCHANGED outside
    /\ UNCHANGED constructed

\* nodes = _validate_nodes(raw_list, video_id, video_url)
Validate ==
    /\ pc = "Parsed"
    /\ \E v \in {_validate_nodes(raw_list, source.video_id, source.video_url)} :
       IF v.exc = "none"
       THEN /\ nodes' = v.v
            /\ pc' = "Validated"
            /\ UNCHANGED escaped
       ELSE /\ escaped' = v.exc
            /\ pc' = "Done"
            /\ UNCHANGED nodes
    /\ UNCHANGED <<llm_type, transcript, source, max_chars, truncated,
                   attempt_number, prompts, response, outcomes, sleeps, pending,
                   raw_list, result>>
    /\ UNCHANGED outside
    /\ UNCHANGED constructed

\* return nodes
Return ==
    /\ pc = "Validated"
    /\ result' = nodes
    /\ pc' = "Done"
    /\ UNCHANGED <<llm_type, transcript, source, max_chars, truncated,
                   attempt_number, prompts, response, outcomes, sleeps, pending,
                   raw_list, nodes, escaped>>
    /\ UNCHANGED outside
    /\ UNCHANGED constructed

Next ==
    \/ Truncate
    \/ AttemptWithoutClient
    \/ AttemptInvokeRaises
    \/ AttemptInvokeReturns
    \/ Backoff
    \/ HandleFailure
    \/ Validate
    \/ Return

Spec == Init /\ [][Next]_vars

\* The function is sequential code: a step that can be taken is taken (the
\* model client returns or raises, time.sleep returns).
FairSpec == Spec /\ WF_vars(Next)

(***************************************************************************)
(* The helper functions called on their own: the response parser, the      *)
(* truncation and the embedding-input string of a record, each applied to  *)
(* arguments drawn from a bounded set.                                     *)
(***************************************************************************)
\* a variant: the category and the diagnostic layer only
embed_text_WithoutQuestion(node) ==
    node.category \o <<" ">>
        \o node.diagnostic_layer.related_inner_issues \o <<" ">>
        \o node.diagnostic_layer.reality_commitment_check \o <<" ">>
        \o node.diagnostic_layer.hidden_benefit \o <<" ">>
        \o node.diagnostic_layer.energy_node

\* EnergyNode.embed_text(): the f-string of six fields, a space between them
embed_text(node) ==
    node.main_question \o <<" ">>
        \o node.category \o <<" ">>
        \o node.diagnostic_layer.related_inner_issues \o <<" ">>
        \o node.diagnostic_layer.reality_commitment_check \o <<" ">>
        \o node.diagnostic_layer.hidden_benefit \o <<" ">>
        \o node.diagnostic_layer.energy_node

(***************************************************************************)
(* The vector store (qdrant_db.py)                                         *)
(***************************************************************************)
\* batch_size: int = 64
BATCH_SIZE == 64

\* get_client() and get_embedder(), for kind "client" and "embedder", run
\* without interruption: the handle in the module global, constructed and
\* assigned first when the global is None
GetSingleton(kind, globals, made) ==
    IF globals[kind] = None
    THEN [handle      |-> made[kind] + 1,
          singletons  |-> [globals EXCEPT ![kind] = made[kind] + 1],
          constructed |-> [made EXCEPT ![kind] = @ + 1]]
    ELSE [handle |-> globals[kind], singletons |-> globals, constructed |-> made]

\* PointStruct(id=str(uuid.uuid4()), vector=embed_text(node.embed_text()),
\* payload=node.to_payload()): n stands for the fresh id, the text embedded
\* for its vector
PointStruct(n, node) == [id |-> n, vector |-> embed_text(node), payload |-> node]

\* a variant: a batch starts at every point
Batches_Overlapping(points, i, batch_size) ==
    [b \in 1..Len(points) |-> SubSeq(points, b, Min2(b + batch_size - 1, Len(points)))]

\* points[i : i + batch_size] for i in range(0, len(points), batch_size),
\* from the 1-based index i on
RECURSIVE Batches(_, _, _)
Batches(points, i, batch_size) ==
    IF i > Len(points) THEN <<>>
    ELSE <<SubSeq(points, i, Min2(i + batch_size - 1, Len(points)))>>
             \o Batches(points, i + batch_size, batch_size)

\* total_upserted after the batches
RECURSIVE UpsertBatches(_)
UpsertBatches(batches) ==
    IF batches = <<>> THEN 0 ELSE Len(Head(batches)) + UpsertBatches(Tail(batches))

\* what the vector store does: it answers, it is down (get_collections
\* raises), or it drops the connection after the first upsert
Stores == {"up", "down", "drops"}

\* the outcome of upsert_nodes: what it returned or raised, the batches the
\* store accepted, and the module globals and handles after it
Upserted(exc, v, sent, got) ==
    [exc |-> exc, v |-> v, sent |-> sent, singletons |-> got.singletons,
     constructed |-> got.constructed]

\* a variant: the count of the batches is returned
upsert_nodes_CountsBatches(items, batch_size, store, globals, made) ==
    IF items = <<>>
    THEN Upserted("none", 0, <<>>, [singletons |-> globals, constructed |-> made])
    ELSE LET client  == GetSingleton("client", globals, made)
             points  == [n \in 1..Len(items) |-> PointStruct(n, items[n])]
             batches == Batches(points, 1, batch_size)
         IN  Upserted("none", Len(batches), batches,
                      GetSingleton("embedder", client.singletons, client.constructed))

\* upsert_nodes(nodes, batch_size=batch_size), called with the module
\* globals and the handles constructed so far
upsert_nodes(items, batch_size, store, globals, made) ==
    IF items = <<>>
    THEN Upserted("none", 0, <<>>, [singletons |-> globals, constructed |-> made])
    ELSE LET client == GetSingleton("client", globals, made) IN
         IF store = "down" THEN Upserted("UnexpectedResponse", 0, <<>>, client)
         ELSE LET embedder == GetSingleton("embedder", client.singletons, client.constructed)
                  points   == [n \in 1..Len(items) |-> PointStruct(n, items[n])]
              IN  IF batch_size = 0 THEN Upserted("ValueError", 0, <<>>, embedder)
                  ELSE LET batches == Batches(points, 1, batch_size) IN
                       IF store = "drops" /\ Len(batches) > 1
                       THEN Upserted("UnexpectedResponse", 0, <<Head(batches)>>, embedder)
                       ELSE Upserted("none", UpsertBatches(batches), batches, embedder)

\* no call of extract_energy_nodes is under way
NotExtracting ==
    /\ pc = "Idle"
    /\ transcript = <<>>
    /\ source = [video_id |-> <<>>, video_url |-> <<>>]
    /\ max_chars = MaxChars
    /\ truncated = <<>>
    /\ attempt_number = 0
    /\ prompts = <<>>
    /\ response = NoResponse
    /\ outcomes = <<>>
    /\ sleeps = <<>>
    /\ pending = "none"
    /\ raw_list = <<>>
    /\ nodes = <<>>
    /\ result = <<>>
    /\ escaped = "none"

extraction == <<pc, llm_type, transcript, source, max_chars, truncated,
                attempt_number, prompts, response, outcomes, sleeps, pending,
                raw_list, nodes, result, escaped>>

\* ---- the texts given to _extract_json_array ----
\* arrays whose strings hold brackets or backticks, next to plain ones
SpecialArrays ==
    { <<Word("[")>>,
      <<Word("]")>>,
      <<JStr(<<"]", " ", "[">>), Word("w")>>,
      <<JStr(<<BACKTICK, BACKTICK, BACKTICK>>)>>,
      <<JStr(<<"a", BACKTICK, BACKTICK, BACKTICK, "json", "b">>)>>,
      <<JStr(<<BACKTICK, BACKTICK>>)>>,
      <<JArr(<<Word("w")>>), JNum(<<"1", "2">>), JNull>>,
      <<CompleteItem("1"), SpoofItem>> }

ParserArrays == {a \in Arrays : Len(a) <= 1} \cup SpecialArrays

\* a serialization that writes every backtick as its escape sequence
Escaped(array) ==
    LET t == Bare(array)
    IN  [j \in 1..Len(t) |-> IF t[j] = BACKTICK THEN ESCAPED_BACKTICK ELSE t[j]]

NoArrayHere == <<"no", " ", "array", " ", "here">>

\* texts that are one JSON value which is no array and holds none
NonArrayTexts ==
    { json_dumps(Word("text")),
      <<"1">>,
      <<"null">>,
      json_dumps(Without(CompleteItem("1"), "overflow")),
      FENCE \o <<"json", "\n">> \o json_dumps(PillarsObject("1")) \o <<"\n">> \o FENCE }

\* two arrays with prose between them
SeveralArrays(first, second) == Bare(first) \o <<" ", "and", " ">> \o Bare(second)

\* shape: how the text was made from the array
ParseCall(text, shape, array) ==
    [fn |-> "_extract_json_array", text |-> text, shape |-> shape, array |-> array]

ParseCalls ==
    {ParseCall(Bare(a), "bare", a) : a \in ParserArrays}
        \cup {ParseCall(Fenced(a), "fenced", a) : a \in ParserArrays}
        \cup {ParseCall(FencedJson(a), "fenced json", a) : a \in ParserArrays}
        \cup {ParseCall(InProse(a), "prose", a) : a \in ParserArrays}
        \cup {ParseCall(Escaped(a), "escaped", a) : a \in SpecialArrays}
        \cup {ParseCall(t, "no array", <<>>) : t \in NonArrayTexts \cup {NoArrayHere}}
        \cup {ParseCall(r.text, "other", <<>>) : r \in OtherResponses}
        \cup {ParseCall(SeveralArrays(a, b), "several arrays", a) :
                  a \in {<<JNum(<<"1">>)>>, <<CompleteItem("1")>>},
                  b \in {<<JNum(<<"2">>)>>, <<>>}}

\* ---- the arguments given to truncate_transcript ----
\* the longest text and the largest max_chars
MaxLen == 11
MaxWindow == 10

\* the text of length n with a period at the positions P and a space at
\* the positions S (1-based)
TextWith(n, P, S) ==
    [i \in 1..n |-> IF i \in P THEN "." ELSE IF i \in S THEN " " ELSE "a"]

\* up to two periods anywhere
PeriodPlaces(n) == {{}} \cup {{i} : i \in 1..n} \cup {{i, j} : i, j \in 1..n}

\* one space anywhere, or a space at either end
SpacePlaces(n) == {{}} \cup {{i} : i \in 1..n} \cup {{1, n}}

TruncateTexts ==
    UNION {{TextWith(n, P, S) : P \in PeriodPlaces(n), S \in SpacePlaces(n)} :
               n \in 0..MaxLen}

TruncateCalls ==
    {[fn |-> "truncate_transcript", text |-> t, max_chars |-> m] :
        t \in TruncateTexts, m \in 0..MaxWindow}

\* ---- the records given to embed_text ----
NodeItems == Items \cup SingleItems

EmbedCalls ==
    {[fn |-> "embed_text", node |-> BuildNode(item, src.video_id, src.video_url).v] :
        item \in {i \in NodeItems : BuildNode(i, <<>>, <<>>).exc = "none"},
        src \in Sources}

\* ---- the raw texts given to clean_transcript ----
CleanTexts ==
    { <<"a", " ", "b", ".">>,
      <<"H", ":", " ", "[", "a", "]", " ", "a", " ", "b", ".", " ", "like", " ", "and",
        " ", "subscribe", " ", "1", ":", "2", "2", " ", "c", " ", "d", ".">> }
        \cup { <<"a", ":", " ", "b", ":", " ", "c">>,
               <<"a", "[", "b", "\n", "c", "]", "d", "[", "a", "]", "b">>,
               <<"subscribe", " ", "to", " ", "my", " ", "like", " ", "and", " ",
                 "subscribe", " ", "channel">>,
               <<"a", "\n", " ", "b", ":", " ", "c">>,
               <<" ", "a", " ", " ", "b", ".", "\n">>,
               <<>> }

CleanCalls == {[fn |-> "clean_transcript", text |-> t] : t \in CleanTexts}

\* ---- the arguments given to upsert_nodes ----
\* the longest list of nodes
MaxNodes == 3

UpsertNodes ==
    {BuildNode(item, <<"abc">>, <<"https://youtu.be/abc">>).v :
        item \in {CompleteItem("1"), SpoofItem}}

UpsertCalls ==
    {[fn |-> "upsert_nodes", items |-> ns, batch_size |-> b, store |-> st] :
        ns \in SeqsUpTo(UpsertNodes, MaxNodes), b \in {1, 2, BATCH_SIZE}, st \in Stores}

HelperInit ==
    /\ NotExtracting
    /\ FreshProcess
    /\ llm_type = "ollama"
    /\ NoBatch
    /\ \/ call \in ParseCalls
       \/ call \in TruncateCalls
       \/ call \in EmbedCalls
       \/ call \in CleanCalls
       \/ call \in UpsertCalls
    /\ ret = NotCalled
    /\ recovered = NothingRecovered

Called == ret.exc # "not called"

\* _extract_json_array(text)
CallExtractJsonArray ==
    /\ call.fn = "_extract_json_array"
    /\ ~Called
    /\ ret' = _extract_json_array(call.text)
    /\ UNCHANGED <<call, recovered>>
    /\ UNCHANGED <<extraction, batch, qdrant, constructed>>

\* the array recovered is serialized again (json.dumps) and given to the
\* parser as a new text
Reserialize ==
    /\ call.fn = "_extract_json_array"
    /\ Called
    /\ ret.exc = "none"
    /\ recovered = NothingRecovered
    /\ recovered' = ret.v
    /\ call' = ParseCall(json_dumps(ret.v), "reserialized", ret.v.e)
    /\ ret' = NotCalled
    /\ UNCHANGED <<extraction, batch, qdrant, constructed>>

\* truncate_transcript(text, max_chars)
CallTruncateTranscript ==
    /\ call.fn = "truncate_transcript"
    /\ ~Called
    /\ ret' = [exc |-> "none", v |-> truncate_transcript(call.text, call.max_chars)]
    /\ UNCHANGED <<call, recovered>>
    /\ UNCHANGED <<extraction, batch, qdrant, constructed>>

\* node.embed_text()
CallEmbedText ==
    /\ call.fn = "embed_text"
    /\ ~Called
    /\ ret' = [exc |-> "none", v |-> embed_text(call.node)]
    /\ UNCHANGED <<call, recovered>>
    /\ UNCHANGED <<extraction, batch, qdrant, constructed>>

\* clean_transcript(raw)
CallCleanTranscript ==
    /\ call.fn = "clean_transcript"
    /\ ~Called
    /\ ret' = [exc |-> "none", v |-> clean_transcript(call.text)]
    /\ UNCHANGED <<call, recovered>>
    /\ UNCHANGED <<extraction, batch, qdrant, constructed>>

\* the cleaned text is given to clean_transcript once more
CleanAgain ==
    /\ call.fn = "clean_transcript"
    /\ Called
    /\ recovered = NothingRecovered
    /\ recovered' = JStr(ret.v)
    /\ call' = [fn |-> "clean_transcript", text |-> ret.v]
    /\ ret' = NotCalled
    /\ UNCHANGED <<extraction, batch, qdrant, constructed>>

\* upsert_nodes(nodes, batch_size=batch_size)
CallUpsertNodes ==
    /\ call.fn = "upsert_nodes"
    /\ ~Called
    /\ \E done \in {upsert_nodes(call.items, call.batch_size, call.store, singletons,
                                  constructed)} :
        /\ ret' = [exc |-> done.exc, v |-> done.v]
        /\ singletons' = done.singletons
        /\ constructed' = done.constructed
        /\ upserts' = upserts \o done.sent
    /\ UNCHANGED <<call, recovered, threads>>
    /\ UNCHANGED <<extraction, batch>>

HelperNext ==
    \/ CallUpsertNodes
    \/ CallCleanTranscript
    \/ CleanAgain
    \/ CallExtractJsonArray
    \/ Reserialize
    \/ CallTruncateTranscript
    \/ CallEmbedText

HelperSpec == HelperInit /\ [][HelperNext]_vars

(***************************************************************************)
(* process_csv: the batch over the links of an uploaded file (main.py),    *)
(* with process_youtube_url for each of them                               *)
(***************************************************************************)
\* a link of the file: its text, and what urlparse makes of the stripped
\* text (query: the pairs of parse_qs)
Link(url, netloc, path, query) ==
    [url |-> url, netloc |-> netloc, path |-> path, query |-> query]

Links ==
    { Link(<<"https://youtu.be/abc">>, <<"youtu.be">>, <<"/", "abc">>, <<>>),
      Link(<<" ", "https://youtube.com/watch?v=test123">>, <<"youtube.com">>,
           <<"/", "watch">>, << <<"v", <<"test123">> >> >>),
      Link(<<"https://www.youtube.com/shorts/xyz">>, <<"www.", "youtube.com">>,
           <<"/", "shorts", "/", "xyz">>, <<>>),
      Link(<<"not a link">>, <<>>, <<"not a link">>, <<>>) }

\* the largest number of unique links in a file
MaxLinks == 2

\* path.lstrip("/")
RECURSIVE lstrip_slash(_)
lstrip_slash(path) ==
    IF path # <<>> /\ Head(path) = "/" THEN lstrip_slash(Tail(path)) ELSE path

\* path.split("/"), part being the part read so far
RECURSIVE Split(_, _)
Split(path, part) ==
    IF path = <<>> THEN <<part>>
    ELSE IF Head(path) = "/" THEN <<part>> \o Split(Tail(path), <<>>)
    ELSE Split(Tail(path), part \o <<Head(path)>>)

\* extract_video_id(url)
extract_video_id(link) ==
    IF link.netloc = <<"youtu.be">> THEN Built(lstrip_slash(link.path))
    ELSE LET v == {n \in 1..Len(link.query) : link.query[n][1] = "v"}
             path_parts == Split(link.path, <<>>)
             marks == {i \in 1..Len(path_parts) :
                          /\ path_parts[i] \in {<<"shorts">>, <<"embed">>, <<"v">>}
                          /\ i < Len(path_parts)}
         IN  IF \E n \in 1..Len(link.netloc) : link.netloc[n] = "youtube.com"
             THEN IF v # {} THEN Built(link.query[CHOOSE n \in v : \A m \in v : n <= m][2])
                  ELSE IF marks # {}
                  THEN Built(path_parts[(CHOOSE i \in marks : \A j \in marks : i <= j) + 1])
                  ELSE Raises("ValueError")
             ELSE Raises("ValueError")

\* " ".join(seg.text for seg in segments)
RECURSIVE JoinSegments(_)
JoinSegments(segments) ==
    IF segments = <<>> THEN <<>>
    ELSE IF Len(segments) = 1 THEN Head(segments)
    ELSE Head(segments) \o <<" ">> \o JoinSegments(Tail(segments))

\* what the transcript service does for a video: api.fetch returns the
\* segments or raises, and after NoTranscriptFound the generated transcript
\* is there or is not
Fetched(segments) == [fetch |-> "segments", generated |-> "none", segments |-> segments]
Generated(segments) ==
    [fetch |-> "NoTranscriptFound", generated |-> "segments", segments |-> segments]
Unavailable(exc, inner) == [fetch |-> exc, generated |-> inner, segments |-> <<>>]

Segments ==
    { << <<"a", " ", "b", ".">> >>,
      << <<"H", ":", " ", "[", "a", "]", " ", "a">>, <<"b", ".", " ", "like", " ", "and">>,
         <<"subscribe", " ", "1", ":", "2", "2", " ", "c", " ", "d", ".">> >> }

ApiOutcomes ==
    {Fetched(g) : g \in Segments}
        \cup {Generated(<< <<"a", " ", "b", ".">> >>)}
        \cup {Unavailable("NoTranscriptFound", "NoTranscriptFound"),
              Unavailable("TranscriptsDisabled", "none"),
              Unavailable("ConnectError", "none")}

\* fetch_transcript(yt_url)
fetch_transcript(link, api) ==
    LET id == extract_video_id(link) IN
    IF id.exc # "none" THEN Raises(id.exc)
    ELSE IF api.fetch = "segments" \/ (api.fetch = "NoTranscriptFound" /\ api.generated = "segments")
    THEN Built([video_id |-> id.v, text |-> JoinSegments(api.segments)])
    ELSE Raises("RuntimeError")

\* max_chars: int = 12_000
DEFAULT_MAX_CHARS == 12000

\* a variant: the handler of the loop catches a failed fetch only
BatchExcept_OnlyRuntimeError == {"RuntimeError"}

\* except Exception in the loop of process_csv
BatchExcept == {"Exception"}

\* records[:10]
PREVIEW_ROWS == 10

\* ProcessCSVResponse(...)
ProcessCSVResponse(processed, extracted, upserted, failed, preview) ==
    [status |-> "200", processed_links |-> processed,
     total_nodes_extracted |-> extracted, total_nodes_upserted |-> upserted,
     failed_links |-> failed, preview |-> preview]

\* raise HTTPException(status_code=500, ...)
HTTPException(status) == [status |-> status]

\* how process_youtube_url went for a url: the exception that left it, the
\* exception extract_energy_nodes caught, the length of the array parsed and
\* the number of nodes returned
Run(url, raised, caught, parsed, returned) ==
    [url |-> url, raised |-> raised, caught |-> caught, parsed |-> parsed,
     returned |-> returned]

BatchInit ==
    /\ NoHelperCall
    /\ NotExtracting
    /\ FreshProcess
    /\ llm_type \in LlmTypes
    /\ batch_pc = "Loop"
    /\ links \in {q \in SeqsUpTo(Links, MaxLinks) :
                     q # <<>> /\ \A i, j \in 1..Len(q) : q[i] = q[j] => i = j}
    /\ cursor = 0
    /\ all_nodes = <<>>
    /\ failed_links = <<>>
    /\ runs = <<>>
    /\ report = NoReport

\* the url of the for loop
CurrentLink == links[cursor + 1]

\* the locals of extract_energy_nodes and its callees are gone
LeaveExtraction ==
    /\ pc' = "Idle"
    /\ transcript' = <<>>
    /\ source' = [video_id |-> <<>>, video_url |-> <<>>]
    /\ max_chars' = MaxChars
    /\ truncated' = <<>>
    /\ attempt_number' = 0
    /\ prompts' = <<>>
    /\ response' = NoResponse
    /\ outcomes' = <<>>
    /\ sleeps' = <<>>
    /\ pending' = "none"
    /\ raw_list' = <<>>
    /\ nodes' = <<>>
    /\ result' = <<>>
    /\ escaped' = "none"
    /\ UNCHANGED llm_type

\* the body of the for loop ends for the url: with the nodes returned, or
\* in its except clause with the exception raised
EndLink(raised, caught, parsed, returned) ==
    /\ IF raised = "none"
       THEN /\ all_nodes' = all_nodes \o returned
            /\ batch_pc' = "Loop"
            /\ UNCHANGED failed_links
       ELSE IF Catches(BatchExcept, raised)
       THEN /\ failed_links' = Append(failed_links, CurrentLink.url)
            /\ batch_pc' = "Loop"
            /\ UNCHANGED all_nodes
       ELSE /\ batch_pc' = "Raised"
            /\ UNCHANGED <<all_nodes, failed_links>>
    /\ runs' = Append(runs, Run(CurrentLink.url, raised, caught, parsed, Len(returned)))
    /\ cursor' = cursor + 1
    /\ UNCHANGED <<links, report>>

\* process_youtube_url: fetch_transcript raises
FetchRaises ==
    /\ batch_pc = "Loop"
    /\ cursor < Len(links)
    /\ \E api \in ApiOutcomes :
        \E fetched \in {fetch_transcript(CurrentLink, api)} :
            /\ fetched.exc # "none"
            /\ EndLink(fetched.exc, "none", 0, <<>>)
    /\ UNCHANGED extraction
    /\ UNCHANGED <<call, ret, recovered, qdrant, constructed>>

\* process_youtube_url: the transcript is fetched and cleaned, and
\* extract_energy_nodes is called with it
FetchReturns ==
    /\ batch_pc = "Loop"
    /\ cursor < Len(links)
    /\ \E api \in ApiOutcomes :
        \E fetched \in {fetch_transcript(CurrentLink, api)} :
            /\ fetched.exc = "none"
            /\ transcript' = clean_transcript(fetched.v.text)
            /\ source' = [video_id |-> fetched.v.video_id, video_url |-> strip(CurrentLink.url)]
    /\ max_chars' = DEFAULT_MAX_CHARS
    /\ pc' = "Received"
    /\ batch_pc' = "Extracting"
    /\ UNCHANGED <<llm_type, truncated, attempt_number, prompts, response, outcomes,
                   sleeps, pending, raw_list, nodes, result, escaped>>
    /\ UNCHANGED <<links, cursor, all_nodes, failed_links, runs, report>>
    /\ UNCHANGED <<call, ret, recovered, qdrant, constructed>>

\* extract_energy_nodes is over: process_youtube_url returns its nodes, or
\* the exception that left it goes on to the except clause of the loop
ExtractionEnds ==
    /\ batch_pc = "Extracting"
    /\ pc = "Done"
    /\ EndLink(escaped,
               IF outcomes # <<>> /\ escaped = "none" THEN outcomes[Len(outcomes)].exc
               ELSE "none",
               Len(raw_list),
               IF escaped = "none" THEN result ELSE <<>>)
    /\ LeaveExtraction
    /\ UNCHANGED <<call, ret, recovered, qdrant, constructed>>

\* after the loop upsert_nodes raises: HTTP 500
UpsertRaises ==
    /\ batch_pc = "Loop"
    /\ cursor = Len(links)
    /\ all_nodes # <<>>
    /\ \E store \in Stores :
        \E total_upserted \in {upsert_nodes(all_nodes, BATCH_SIZE, store, singletons,
                                            constructed)} :
            /\ total_upserted.exc # "none"
            /\ report' = HTTPException("500")
            /\ singletons' = total_upserted.singletons
            /\ constructed' = total_upserted.constructed
            /\ upserts' = upserts \o total_upserted.sent
    /\ batch_pc' = "Raised"
    /\ UNCHANGED <<links, cursor, all_nodes, failed_links, runs>>
    /\ UNCHANGED extraction
    /\ UNCHANGED <<call, ret, recovered, threads>>

\* after the loop the nodes are upserted, if there are any, and the report
\* is returned
Respond ==
    /\ batch_pc = "Loop"
    /\ cursor = Len(links)
    /\ \E store \in Stores :
        \E total_upserted \in {IF all_nodes # <<>>
                               THEN upsert_nodes(all_nodes, BATCH_SIZE, store, singletons,
                                                 constructed)
                               ELSE Upserted("none", 0, <<>>,
                                             [singletons |-> singletons,
                                              constructed |-> constructed])} :
            /\ total_upserted.exc = "none"
            /\ report' = ProcessCSVResponse(Len(links) - Len(failed_links), Len(all_nodes),
                                            total_upserted.v, failed_links,
                                            Prefix(all_nodes, PREVIEW_ROWS))
            /\ singletons' = total_upserted.singletons
            /\ constructed' = total_upserted.constructed
            /\ upserts' = upserts \o total_upserted.sent
    /\ batch_pc' = "Returned"
    /\ UNCHANGED <<links, cursor, all_nodes, failed_links, runs>>
    /\ UNCHANGED extraction
    /\ UNCHANGED <<call, ret, recovered, threads>>

BatchNext ==
    \/ FetchRaises
    \/ FetchReturns
    \/ Truncate
    \/ AttemptWithoutClient
    \/ AttemptInvokeRaises
    \/ AttemptInvokeReturns
    \/ Backoff
    \/ HandleFailure
    \/ Validate
    \/ Return
    \/ ExtractionEnds
    \/ UpsertRaises
    \/ Respond

BatchSpec == BatchInit /\ [][BatchNext]_vars

(***************************************************************************)
(* get_client and get_embedder called by several workers                   *)
(*                                                                         *)
(* The endpoints query and get_collection_info are plain functions, which  *)
(* the server runs in a pool of threads; search_nodes and collection_info  *)
(* call get_client, and search_nodes calls get_embedder through            *)
(* embed_text. No lock guards the two module globals, so a worker can be   *)
(* suspended between any two of: the test of the global, the construction  *)
(* of the handle, the assignment to the global, the read of the global     *)
(* for the return.                                                         *)
(***************************************************************************)
Kinds == {"client", "embedder"}

\* what no worker touches inside get_client and get_embedder
elsewhere == <<extraction, batch, call, ret, recovered, upserts>>

WorkerInit ==
    /\ NotExtracting
    /\ llm_type = "ollama"
    /\ NoBatch
    /\ NoHelperCall
    /\ FreshProcess

At(w, kind, where) == threads[w].kind = kind /\ threads[w].at = where

\* fastembed is installed or it is not, for the whole process
ImportFailed == \E w \in Workers : threads[w].at = "raised"

\* a worker calls get_client() or get_embedder()
Enter(w, kind) ==
    /\ threads[w].at = "outside"
    /\ threads' = [threads EXCEPT ![w] = [Outside EXCEPT !.at = "test", !.kind = kind]]
    /\ UNCHANGED <<singletons, constructed, elsewhere>>

\* if _client is None: / if _embedder is None:
TestGlobal(w) ==
    /\ threads[w].at = "test"
    /\ threads' = [threads EXCEPT ![w].at =
                       IF singletons[threads[w].kind] = None THEN "construct"
                                                              ELSE "return"]
    /\ UNCHANGED <<singletons, constructed, elsewhere>>

\* QdrantClient(host=..., port=..., https=False, api_key=...), or, the
\* import having worked, TextEmbedding(model_name=EMBED_MODEL)
ConstructHandle(w) ==
    /\ threads[w].at = "construct"
    /\ ~ImportFailed
    /\ constructed' = Construct(threads[w].kind)
    /\ threads' = [threads EXCEPT ![w].at = "assign",
                                  ![w].made = constructed'[threads[w].kind]]
    /\ UNCHANGED <<singletons, elsewhere>>

\* from fastembed import TextEmbedding raises ImportError, raised again
ImportFails(w) ==
    /\ At(w, "embedder", "construct")
    /\ constructed.embedder = 0
    /\ threads' = [threads EXCEPT ![w].at = "raised"]
    /\ UNCHANGED <<singletons, constructed, elsewhere>>

\* _client = ... / _embedder = ...
AssignGlobal(w) ==
    /\ threads[w].at = "assign"
    /\ singletons' = [singletons EXCEPT ![threads[w].kind] = threads[w].made]
    /\ threads' = [threads EXCEPT ![w].at = "return"]
    /\ UNCHANGED <<constructed, elsewhere>>

\* return _client / return _embedder
ReturnGlobal(w) ==
    /\ threads[w].at = "return"
    /\ threads' = [threads EXCEPT ![w].at = "returned",
                                  ![w].got = singletons[threads[w].kind]]
    /\ UNCHANGED <<singletons, constructed, elsewhere>>

\* the caller goes on with the handle, and may ask for a handle again
Leave(w) ==
    /\ threads[w].at = "returned"
    /\ threads' = [threads EXCEPT ![w] = Outside]
    /\ UNCHANGED <<singletons, constructed, elsewhere>>

WorkerNext ==
    \/ \E w \in Workers, kind \in Kinds : Enter(w, kind)
    \/ \E w \in Workers : TestGlobal(w)
    \/ \E w \in Workers : ConstructHandle(w)
    \/ \E w \in Workers : ImportFails(w)
    \/ \E w \in Workers : AssignGlobal(w)
    \/ \E w \in Workers : ReturnGlobal(w)
    \/ \E w \in Workers : Leave(w)

WorkerSpec == WorkerInit /\ [][WorkerNext]_vars

(***************************************************************************)
(* What the properties speak of                                            *)
(***************************************************************************)
\* the number of times the model client was invoked
Invocations == Len(prompts)

\* the exceptions of the client that are transport or timeout errors
TransportErrors == {"ConnectError", "TimeoutException"}

LastOutcome == outcomes[Len(outcomes)]

\* the call returned after a parsed array was obtained
ReturnedParsed == pc = "Done" /\ outcomes # <<>> /\ LastOutcome.exc = "none"

\* the attempt ended because the answer could not be parsed
IsParseFailure(o) == o.invoke = "returned" /\ o.exc = "ValueError"

\* a field that must be there and be a string
StrField(obj, name) == HasKey(obj, Key(name)) /\ IsStr(GetItem(obj, Key(name)))

\* a field that may be missing, and is a string when it is there
OptionalStrField(obj, name) ==
    HasKey(obj, Key(name)) => IsStr(GetItem(obj, Key(name)))

\* An item is well-formed when it is an object with string main_question and
\* category, an object pillars with its three strings, an object atmosphere
\* with its two strings, and no wrongly typed field: a diagnostic_layer, when
\* given, is an object whose given sub-fields are strings, and an overflow,
\* when given, is a list of strings.
WellFormed(item) ==
    /\ IsDict(item)
    /\ StrField(item, "main_question")
    /\ StrField(item, "category")
    /\ HasKey(item, Key("pillars"))
    /\ LET p == GetItem(item, Key("pillars")) IN
        /\ IsDict(p)
        /\ StrField(p, "intervention_narrative")
        /\ StrField(p, "intervention_action")
        /\ StrField(p, "intervention_shift")
    /\ HasKey(item, Key("atmosphere"))
    /\ LET a == GetItem(item, Key("atmosphere")) IN
        /\ IsDict(a)
        /\ StrField(a, "tone")
        /\ StrField(a, "pacing")
    /\ HasKey(item, Key("diagnostic_layer")) =>
        LET d == GetItem(item, Key("diagnostic_layer")) IN
        /\ IsDict(d)
        /\ OptionalStrField(d, "related_inner_issues")
        /\ OptionalStrField(d, "reality_commitment_check")
        /\ OptionalStrField(d, "hidden_benefit")
        /\ OptionalStrField(d, "energy_node")
    /\ HasKey(item, Key("overflow")) =>
        LET o == GetItem(item, Key("overflow")) IN
        IsList(o) /\ \A i \in 1..Len(o.e) : IsStr(o.e[i])

\* the text of a field, empty when the field is missing
TextOf(obj, name) ==
    IF HasKey(obj, Key(name)) THEN GetItem(obj, Key(name)).s ELSE <<>>

\* the record a well-formed item stands for, with the caller's provenance
RecordOf(item, src) ==
    LET d == IF HasKey(item, Key("diagnostic_layer"))
             THEN GetItem(item, Key("diagnostic_layer")) ELSE JObj(<<>>)
        p == GetItem(item, Key("pillars"))
        a == GetItem(item, Key("atmosphere"))
        o == IF HasKey(item, Key("overflow"))
             THEN GetItem(item, Key("overflow")).e ELSE <<>>
    IN  [video_id         |-> src.video_id,
         video_url        |-> src.video_url,
         main_question    |-> TextOf(item, "main_question"),
         category         |-> TextOf(item, "category"),
         diagnostic_layer |->
             [related_inner_issues     |-> TextOf(d, "related_inner_issues"),
              reality_commitment_check |-> TextOf(d, "reality_commitment_check"),
              hidden_benefit           |-> TextOf(d, "hidden_benefit"),
              energy_node              |-> TextOf(d, "energy_node")],
         pillars          |->
             [intervention_narrative |-> TextOf(p, "intervention_narrative"),
              intervention_action    |-> TextOf(p, "intervention_action"),
              intervention_shift     |-> TextOf(p, "intervention_shift")],
         atmosphere       |-> [tone |-> TextOf(a, "tone"), pacing |-> TextOf(a, "pacing")],
         overflow         |-> [i \in 1..Len(o) |-> o[i].s]]

\* the records of an array: those of its well-formed items, in array order
RECURSIVE RecordsOf(_, _)
RecordsOf(array, src) ==
    IF array = <<>> THEN <<>>
    ELSE (IF WellFormed(Head(array)) THEN <<RecordOf(Head(array), src)>> ELSE <<>>)
         \o RecordsOf(Tail(array), src)

WellFormedCount(array) == Cardinality({i \in 1..Len(array) : WellFormed(array[i])})

\* the elements of a set of numbers in increasing order
RECURSIVE Ascending(_)
Ascending(S) ==
    IF S = {} THEN <<>>
    ELSE LET m == CHOOSE x \in S : \A y \in S : x <= y
         IN  <<m>> \o Ascending(S \ {m})

(***************************************************************************)
(* Properties                                                              *)
(***************************************************************************)
\* C1: extract_energy_nodes never raises.  Whatever the model client does on
\* any attempt (a parseable answer, an unparseable one, a transport or other
\* exception, no client at all), the call ends with no exception leaving it,
\* and what it returns is the empty list whenever no parsed array was
\* obtained.
NeverRaises ==
    /\ escaped = "none"
    /\ pc = "Done" /\ ~ReturnedParsed => result = <<>>

\* C1 witness: the call has returned after a transport error of the client.
NeverRaises_Witness ==
    /\ pc = "Done"
    /\ LastOutcome.invoke = "ConnectError"
    /\ result = <<>>
    /\ escaped = "none"

\* C2: when the first k-1 attempts fail to parse and attempt k parses
\* (k <= 3), the call returns the records of the k-th answer and the client
\* was invoked exactly k times.
RetryThenSuccess ==
    ReturnedParsed /\ LastOutcome.invoke = "returned" =>
        /\ attempt_number <= MAX_ATTEMPTS
        /\ Len(outcomes) = attempt_number
        /\ Invocations = attempt_number
        /\ \A i \in 1..(attempt_number - 1) : outcomes[i].exc = "ValueError"
        /\ response.holds => result = RecordsOf(response.array, source)

\* C2 witness: two answers that did not parse, then a third one whose record
\* is returned, after exactly three invocations.
RetryThenSuccess_Witness ==
    /\ pc = "Done"
    /\ Len(outcomes) = 3
    /\ IsParseFailure(outcomes[1]) /\ IsParseFailure(outcomes[2])
    /\ outcomes[3] = Outcome("returned", "none")
    /\ response.holds /\ response.array = <<CompleteItem("1")>>
    /\ result = <<RecordOf(CompleteItem("1"), source)>>
    /\ Invocations = 3

\* C3: when every answer of the model fails to parse, the call returns the
\* empty list after exactly 3 invocations, and no exception leaves it.
AllParseFailures ==
    pc = "Done" /\ outcomes # <<>> /\ (\A i \in 1..Len(outcomes) : IsParseFailure(outcomes[i])) =>
        /\ Invocations = 3
        /\ result = <<>>
        /\ escaped = "none"

\* C3 witness: three answers, none parsed, and the call has returned.
AllParseFailures_Witness ==
    /\ pc = "Done"
    /\ Len(outcomes) = 3
    /\ \A i \in 1..3 : IsParseFailure(outcomes[i])
    /\ Invocations = 3

\* C4: a transport or timeout error of the client is not retried: it ends the
\* last attempt of the call, the client is not invoked again after it, and
\* only an attempt that ended with a parse or content-shape failure
\* (ValueError) is followed by a further attempt.
TransportErrorIsFatal ==
    \A i \in 1..Len(outcomes) :
        /\ outcomes[i].invoke \in TransportErrors =>
              /\ i = Len(outcomes)
              /\ Invocations = i
              /\ pc \in {"Raised", "Done"}
        /\ i < Len(outcomes) \/ pc \in {"Backoff", "Attempt"} =>
              IsSubclass(outcomes[i].exc, "ValueError")

\* C4 witness: a parse failure, then a timeout on attempt 2, and the call has
\* returned after exactly two invocations.
TransportErrorIsFatal_Witness ==
    /\ pc = "Done"
    /\ Len(outcomes) = 2
    /\ IsParseFailure(outcomes[1])
    /\ outcomes[2].invoke = "TimeoutException"
    /\ Invocations = 2

\* C5: per-item isolation.  A malformed item is skipped and never keeps a
\* sibling from being processed: the number of nodes returned is the number
\* of well-formed items of the parsed array.
PerItemIsolation ==
    ReturnedParsed => Len(result) = WellFormedCount(raw_list)

\* C5 witness: an item without pillars followed by a complete one gives
\* exactly one node.
PerItemIsolation_Witness ==
    /\ pc = "Done"
    /\ raw_list = <<Without(CompleteItem("3"), "pillars"), CompleteItem("1")>>
    /\ Len(result) = 1

\* C6: no node returned has an empty diagnostic-layer field.
DiagnosticFieldsNonEmpty ==
    pc = "Done" =>
        \A i \in 1..Len(result) :
            /\ result[i].diagnostic_layer.related_inner_issues # <<>>
            /\ result[i].diagnostic_layer.reality_commitment_check # <<>>
            /\ result[i].diagnostic_layer.hidden_benefit # <<>>
            /\ result[i].diagnostic_layer.energy_node # <<>>

\* C7: every node returned has non-empty (after trimming) main_question,
\* category, pillars fields and atmosphere fields.
CoreFieldsNonEmpty ==
    pc = "Done" =>
        \A i \in 1..Len(result) :
            /\ strip(result[i].main_question) # <<>>
            /\ strip(result[i].category) # <<>>
            /\ strip(result[i].pillars.intervention_narrative) # <<>>
            /\ strip(result[i].pillars.intervention_action) # <<>>
            /\ strip(result[i].pillars.intervention_shift) # <<>>
            /\ strip(result[i].atmosphere.tone) # <<>>
            /\ strip(result[i].atmosphere.pacing) # <<>>

\* C8: every node returned carries the caller's video_id and video_url,
\* whatever the answer holds, provenance keys of its own included.
ProvenancePassedThrough ==
    pc = "Done" =>
        \A i \in 1..Len(result) :
            /\ result[i].video_id = source.video_id
            /\ result[i].video_url = source.video_url

\* C8 witness: a node was built from an item that carries video_id and
\* video_url keys of its own.
ProvenancePassedThrough_Witness ==
    /\ pc = "Done"
    /\ raw_list = <<SpoofItem>>
    /\ Len(result) = 1
    /\ result[1].video_id = source.video_id

\* C9: the nodes returned are the records of an order-preserving subsequence
\* of the parsed array: node j is the record of the item at the j-th of some
\* strictly increasing positions of the array (each a well-formed item),
\* nothing doubled, nothing reordered.
SourceOrderPreserved ==
    ReturnedParsed =>
        \E S \in SUBSET (1..Len(raw_list)) :
            /\ Cardinality(S) = Len(result)
            /\ \A k \in S : WellFormed(raw_list[k])
            /\ \A j \in 1..Len(result) :
                   result[j] = RecordOf(raw_list[Ascending(S)[j]], source)

\* C9 witness: two different items, both accepted, returned in array order.
SourceOrderPreserved_Witness ==
    /\ pc = "Done"
    /\ raw_list = <<SpoofItem, CompleteItem("1")>>
    /\ Len(result) = 2
    /\ result[1] # result[2]

\* C10: an answer holding an array with no valid record (an empty array, or
\* only malformed items) is parsed, never raises and never triggers a
\* re-prompt: the call goes on to return the empty list, and when that answer
\* was the first one the client was invoked exactly once.
NoRepromptOnEmptyExtraction ==
    response.exc = "none" /\ response.holds /\ WellFormedCount(response.array) = 0 =>
        /\ pc \in {"Parsed", "Validated", "Done"}
        /\ LastOutcome = Outcome("returned", "none")
        /\ escaped = "none"
        /\ Invocations = attempt_number
        /\ pc = "Done" => result = <<>>

\* C10 witness: the first answer was an array of two malformed items; the
\* call returned the empty list after one invocation.
NoRepromptOnEmptyExtraction_Witness ==
    /\ pc = "Done"
    /\ response.holds
    /\ response.array = <<Without(CompleteItem("3"), "pillars"), JNum(<<"1">>)>>
    /\ result = <<>>
    /\ Invocations = 1

\* ---- the helper functions ----
\* s occurs in t as a run of consecutive characters
IsSubstring(s, t) ==
    \E i \in 0..(Len(t) - Len(s)) : SubSeq(t, i + 1, i + Len(s)) = s

ParserCalled == call.fn = "_extract_json_array" /\ Called

\* the shapes a model gives the array it was asked for
WrappedShapes == {"bare", "fenced", "fenced json", "prose"}

\* the serialization of the array holds no fence marker
FenceFree(array) == StripFences(Bare(array), 1) = Bare(array)

\* C11: the parser recovers the array from a bare serialization, from the
\* same serialization inside code fences (with or without the json tag) and
\* from the same serialization inside explanatory prose (words and
\* punctuation without square brackets): each gives what the bare text
\* gives, which is the array itself when its strings hold no fence marker;
\* the text "no array here" raises ValueError.
RecoversAllShapes ==
    ParserCalled =>
        /\ call.shape \in WrappedShapes =>
              /\ ret.exc = "none"
              /\ ret = _extract_json_array(Bare(call.array))
              /\ FenceFree(call.array) => ret.v = JArr(call.array)
        /\ call.text = NoArrayHere => ret.exc = "ValueError"

\* C11 witness: an array of one complete object, whose overflow is a nested
\* array, was recovered from prose around it.
RecoversAllShapes_Witness ==
    /\ ParserCalled
    /\ call.shape = "prose"
    /\ call.array = <<CompleteItem("1")>>
    /\ ret = Returned(JArr(<<CompleteItem("1")>>))

\* C12: the parser is idempotent on its own output: when it recovered an
\* array and that array is serialized again, parsing the new text succeeds
\* and gives an equal array.
IdempotentOnOwnOutput ==
    ParserCalled /\ call.shape = "reserialized" =>
        /\ ret.exc = "none"
        /\ ret.v = recovered

\* C13: the parser returns only arrays: what it returns is a list, it raises
\* nothing but ValueError, and a text that is one JSON value of another type
\* (object, string, number, null) with no array inside raises ValueError.
ReturnsOnlyArrays ==
    ParserCalled =>
        /\ ret.exc \in {"none", "ValueError"}
        /\ ret.exc = "none" => IsList(ret.v)
        /\ call.shape = "no array" => ret.exc = "ValueError"

\* C13 witness: a bare JSON object without an array inside was refused.
ReturnsOnlyArrays_Witness ==
    /\ ParserCalled
    /\ call.text = json_dumps(Without(CompleteItem("1"), "overflow"))
    /\ ret.exc = "ValueError"

TruncateCalled == call.fn = "truncate_transcript" /\ Called

\* C14: a text no longer than max_chars is returned unchanged, leading and
\* trailing whitespace included.
TruncateIsIdentityOnShortText ==
    TruncateCalled /\ Len(call.text) <= call.max_chars => ret.v = call.text

\* C14 witness: a text with a space at both ends, exactly max_chars long,
\* came back as it was.
TruncateIsIdentityOnShortText_Witness ==
    /\ TruncateCalled
    /\ call.text = <<" ", "a", "a", " ">>
    /\ call.max_chars = 4
    /\ ret.v = call.text

\* the 0-based indices, inside the first max_chars characters, of the periods
\* at or after 80% of max_chars
BoundaryPeriods(text, window) ==
    {i \in 0..(window - 1) :
        i < Len(text) /\ text[i + 1] = "." /\ 10 * i >= 8 * window}

\* C15: for a text longer than max_chars with a period, inside its first
\* max_chars characters, at an index at or after 80% of max_chars, the
\* result ends right after the last such period: its last character is that
\* period.
CutsAtSentenceBoundary ==
    TruncateCalled /\ Len(call.text) > call.max_chars
                   /\ BoundaryPeriods(call.text, call.max_chars) # {} =>
        LET ps   == BoundaryPeriods(call.text, call.max_chars)
            last == CHOOSE i \in ps : \A j \in ps : i >= j
        IN  /\ ret.v # <<>>
            /\ ret.v[Len(ret.v)] = "."
            /\ \E k \in 0..last : ret.v = SubSeq(call.text, k + 1, last + 1)

EmbedTextCalled == call.fn = "embed_text" /\ Called

PathStep ==
    \/ pc = "Received" /\ pc' = "Attempt" /\ attempt_number' = 1 /\ outcomes' = <<>>
    \/ pc = "Attempt" /\ pc' = "Parsed" /\ LastOutcome'.exc = "none"
    \/ pc = "Attempt" /\ pc' = "Backoff" /\ attempt_number < 3
    \/ pc = "Attempt" /\ pc' = "Raised" /\ LastOutcome'.exc # "none"
    \/ pc = "Backoff" /\ pc' = "Attempt" /\ attempt_number' = attempt_number + 1
    \/ pc = "Parsed" /\ pc' = "Validated" /\ LastOutcome.exc = "none"
    \/ pc = "Validated" /\ pc' = "Done" /\ result' = nodes
    \/ pc = "Raised" /\ pc' = "Done" /\ result' = <<>>

\* C19: every call ends in the one terminal state Done.  Each step follows
\* the path Received, Cleaned, 1..3 attempts, then Parsed and Validated, or
\* Failed; nodes are validated only after an attempt parsed; in Done no
\* exception has left the call; and Done is reached.
ExtractPath ==
    /\ [][PathStep]_vars
    /\ [](attempt_number <= 3)
    /\ [](pc = "Validated" => LastOutcome.exc = "none")
    /\ [](pc = "Done" => escaped = "none")
    /\ <>(pc = "Done")

\* C19 witness: a call that ended in Done after three attempts, the third
\* parsed and validated into a node.
ExtractPath_Witness ==
    /\ pc = "Done"
    /\ Len(outcomes) = 3
    /\ LastOutcome.exc = "none"
    /\ Len(result) = 1

\* C20: the attempts of one call are sequential.  Attempt k + 1 starts only
\* when attempt k has ended with a parse failure (a ValueError) and one
\* backoff wait of 2 to 10 seconds has passed since; an attempt starts only
\* when every earlier one has ended; every attempt is sent the same prepared
\* transcript.
SequentialAttempts ==
    /\ pc = "Attempt" =>
          /\ Len(outcomes) = attempt_number - 1
          /\ Len(sleeps) = attempt_number - 1
    /\ pc # "Attempt" /\ attempt_number > 0 =>
          /\ Len(outcomes) = attempt_number
          /\ Len(sleeps) = attempt_number - 1
    /\ Len(prompts) <= Len(outcomes)
    /\ \A i \in 1..Len(sleeps) :
          /\ sleeps[i] \in 2..10
          /\ IsSubclass(outcomes[i].exc, "ValueError")
    /\ \A i \in 1..Len(prompts) : prompts[i] = truncated

\* C20 witness: three attempts, two waits between them, the same transcript
\* sent three times.
SequentialAttempts_Witness ==
    /\ pc = "Done"
    /\ Len(prompts) = 3
    /\ Len(sleeps) = 2
    /\ prompts[1] = prompts[3]
    /\ transcript # truncated

\* a is the beginning of b
IsPrefix(a, b) == Len(a) <= Len(b) /\ SubSeq(b, 1, Len(a)) = a

\* the urls of the runs that ended with an exception, in the order of the file
RECURSIVE FailedRuns(_)
FailedRuns(rs) ==
    IF rs = <<>> THEN <<>>
    ELSE (IF Head(rs).raised # "none" THEN <<Head(rs).url>> ELSE <<>>) \o FailedRuns(Tail(rs))

\* C17: in process_csv a failure while one url is processed (the transcript
\* fetch, or any exception of its pipeline) is caught for that url: the url
\* is appended to failed_links, the nodes collected so far are kept, the
\* loop goes on to the next url, and a report is returned only when every
\* url of the file has been processed.
FailureIsolatedPerLink ==
    [][ /\ cursor' # cursor =>
             /\ cursor' = cursor + 1
             /\ Len(runs') = cursor'
             /\ runs'[cursor'].url = links[cursor'].url
             /\ batch_pc' = "Loop"
             /\ IF runs'[cursor'].raised # "none"
                THEN /\ failed_links' = Append(failed_links, links[cursor'].url)
                     /\ all_nodes' = all_nodes
                ELSE /\ failed_links' = failed_links
                     /\ IsPrefix(all_nodes, all_nodes')
                     /\ Len(all_nodes') = Len(all_nodes) + runs'[cursor'].returned
        /\ cursor' = cursor => UNCHANGED <<all_nodes, failed_links, runs>>
        /\ report' # report =>
             /\ cursor = Len(links)
             /\ report'.status = "200" => report'.failed_links = FailedRuns(runs)
             /\ report'.status # "200" => all_nodes # <<>>
        /\ UNCHANGED links
      ]_vars

\* C17 witness: a file of two links; the first gave a node, for the second
\* no video id or no transcript could be had; the report names the second
\* link as failed and counts the node of the first.
FailureIsolatedPerLink_Witness ==
    /\ report.status = "200"
    /\ Len(runs) = 2
    /\ runs[1].raised = "none"
    /\ runs[1].returned = 1
    /\ runs[2].raised # "none"
    /\ report.failed_links = <<links[2].url>>
    /\ report.total_nodes_extracted = 1

\* the run of a url gave less than the model was asked for: the extraction
\* gave up after an exception, or validation dropped items of the array
Degraded(run) == run.caught # "none" \/ (run.raised = "none" /\ run.returned < run.parsed)

\* C18: every url whose extraction degraded to zero records after an
\* exception, or whose array lost items to validation, is among the
\* failed_links of the report, and so is not counted in processed_links.
NoSilentPartialFailure ==
    report.status = "200" =>
        \A i \in 1..Len(runs) :
            Degraded(runs[i]) => \E j \in 1..Len(report.failed_links) :
                                     report.failed_links[j] = runs[i].url

\* C24: the result of truncate_transcript is a prefix of the input text:
\* characters are removed from the end only, never from the beginning.
TruncateOnlyRemovesFromEnd ==
    TruncateCalled => IsPrefix(ret.v, call.text)

\* C27: for every text and every max_chars >= 0 the result of
\* truncate_transcript has at most max_chars characters.
TruncateWithinBudget ==
    TruncateCalled /\ call.max_chars >= 0 => Len(ret.v) <= call.max_chars

\* C27 witness: a text longer than max_chars without a period in the cut
\* came back with exactly max_chars characters, and a call with max_chars 0.
TruncateWithinBudget_Witness ==
    /\ TruncateCalled
    /\ \/ /\ Len(call.text) > call.max_chars
          /\ call.max_chars = 5
          /\ Len(ret.v) = 5
       \/ /\ call.max_chars = 0
          /\ call.text # <<>>
          /\ ret.v = <<>>

\* C25: from a text that holds several JSON arrays with prose between them,
\* such as "[1] and [2]", the parser returns the first array.
ReturnsFirstOfSeveralArrays ==
    ParserCalled /\ call.shape = "several arrays" =>
        ret.exc = "none" /\ ret.v = JArr(call.array)

DiagnosticFieldNames ==
    {"related_inner_issues", "reality_commitment_check", "hidden_benefit", "energy_node"}

\* the item has no diagnostic object, or one that lacks a sub-field, or no
\* overflow
LacksOptional(item) ==
    \/ ~HasKey(item, Key("diagnostic_layer"))
    \/ \E f \in DiagnosticFieldNames : ~HasKey(GetItem(item, Key("diagnostic_layer")), Key(f))
    \/ ~HasKey(item, Key("overflow"))

\* the diagnostic field f of a node
DiagnosticField(node, f) ==
    CASE f = "related_inner_issues"     -> node.diagnostic_layer.related_inner_issues
      [] f = "reality_commitment_check" -> node.diagnostic_layer.reality_commitment_check
      [] f = "hidden_benefit"           -> node.diagnostic_layer.hidden_benefit
      [] f = "energy_node"              -> node.diagnostic_layer.energy_node

CleanIsIdempotent ==
    call.fn = "clean_transcript" /\ Called /\ recovered # NothingRecovered =>
        ret.v = recovered.s

UpsertCalled == call.fn = "upsert_nodes" /\ Called

\* the points of the batches, one after the other
RECURSIVE Flatten(_)
Flatten(batches) == IF batches = <<>> THEN <<>> ELSE Head(batches) \o Flatten(Tail(batches))

\* C26: upsert_nodes of an empty list returns 0 and neither constructs a
\* client nor sends anything; otherwise, when no store call raised, the
\* batches sent hold the nodes one by one in input order, each batch has at
\* least one and at most batch_size points, and the count returned is
\* len(nodes).
UpsertSendsEachNodeOnce ==
    UpsertCalled =>
        /\ call.items = <<>> =>
              /\ ret.exc = "none"
              /\ ret.v = 0
              /\ upserts = <<>>
              /\ constructed.client = 0
              /\ singletons.client = None
        /\ call.items # <<>> /\ ret.exc = "none" =>
              /\ ret.v = Len(call.items)
              /\ Len(Flatten(upserts)) = Len(call.items)
              /\ \A n \in 1..Len(call.items) : Flatten(upserts)[n].payload = call.items[n]
              /\ \A b \in 1..Len(upserts) :
                    Len(upserts[b]) \in 1..call.batch_size
              /\ \A b \in 1..(Len(upserts) - 1) : Len(upserts[b]) = call.batch_size

\* C26 witness: three nodes sent with batch_size 2, in a batch of two and a
\* batch of one.
UpsertSendsEachNodeOnce_Witness ==
    /\ UpsertCalled
    /\ Len(call.items) = 3
    /\ call.batch_size = 2
    /\ ret.exc = "none"
    /\ ret.v = 3
    /\ Len(upserts) = 2
    /\ Len(upserts[2]) = 1

\* the nodes returned by the runs that ended without an exception
RECURSIVE NodesOfProcessed(_)
NodesOfProcessed(rs) ==
    IF rs = <<>> THEN 0
    ELSE (IF Head(rs).raised = "none" THEN Head(rs).returned ELSE 0)
             + NodesOfProcessed(Tail(rs))

\* C29: in a report returned by process_csv every unique link is counted
\* once, as processed or in failed_links: processed_links and the length of
\* failed_links add up to the number of links, the failed links are the
\* links whose run raised, each once; and total_nodes_upserted is
\* total_nodes_extracted, the sum of the nodes returned for the processed
\* links.
ReportCountsConsistent ==
    report.status = "200" =>
        /\ report.processed_links + Len(report.failed_links) = Len(links)
        /\ report.processed_links =
               Cardinality({i \in 1..Len(runs) : runs[i].raised = "none"})
        /\ report.failed_links = FailedRuns(runs)
        /\ \A i, j \in 1..Len(report.failed_links) :
               report.failed_links[i] = report.failed_links[j] => i = j
        /\ Len(runs) = Len(links)
        /\ report.total_nodes_upserted = report.total_nodes_extracted
        /\ report.total_nodes_extracted = NodesOfProcessed(runs)
        /\ Len(Flatten(upserts)) = report.total_nodes_upserted

\* C29 witness: the report of a file of two links, one failed and one that
\* gave two nodes, both upserted.
ReportCountsConsistent_Witness ==
    /\ report.status = "200"
    /\ Len(links) = 2
    /\ report.processed_links = 1
    /\ Len(report.failed_links) = 1
    /\ report.total_nodes_extracted = 2
    /\ report.total_nodes_upserted = 2

\* C21: the text sent to the model on every attempt is the transcript
\* argument of extract_energy_nodes cleaned and then truncated:
\* truncate_transcript(clean_transcript(transcript), max_chars).
PromptIsCleanedAndTruncated ==
    \A i \in 1..Len(prompts) :
        prompts[i] = truncate_transcript(clean_transcript(transcript), max_chars)

\* C23: over any sequence of calls in one process, at most one model-client
\* handle and at most one store-client handle are ever constructed
HandlesAreSingletons ==
    /\ constructed.llm <= 1
    /\ constructed.client <= 1

\* the workers that hold a handle of the kind returned to them
Holders(kind) == {w \in Workers : At(w, kind, "returned")}

\* C28: when several workers call get_client (or get_embedder) before any
\* handle exists, exactly one handle is constructed and all the callers
\* receive that same handle, whatever the interleaving
LazyInitIsSafe ==
    \A kind \in Kinds :
        /\ constructed[kind] <= 1
        /\ \A v, w \in Holders(kind) : threads[v].got = threads[w].got

====
